---- MODULE Spec2Model ----
(***************************************************************************)
(* Model of the bill-of-lading extractor: the strategy orchestrator        *)
(* (AdvancedBLExtractor.extract), the language-model enhancer              *)
(* (LLMEnhancer), the pattern engine (TextParser) and their two confidence *)
(* scorers.                                                                *)
(*                                                                         *)
(* Confidences are exact rationals, stored as integers in units of         *)
(* 1/ConfScale.  Weights are stored in tenths (1.0 -> 10, 0.5 -> 5,        *)
(* 0.2 -> 2).  No score the two scorers can produce lies on a threshold,   *)
(* so float rounding does not change any comparison of the code.           *)
(***************************************************************************)
EXTENDS Integers, Sequences, FiniteSets, TLC

VARIABLES
    docling_available,  \* DoclingProcessor.available, set in __init__
    pc,                 \* position of extract(): the await it is suspended at
    file_extension,     \* Path(filename).suffix.lower()
    use_llm,            \* argument of extract
    use_docling,        \* argument of extract
    ocr_method,         \* argument of extract
    tmp_file,           \* TRUE while the temporary copy of the upload exists
    structured_data,    \* local of extract: the structured hint, or None
    docling_text,       \* local of extract
    extracted_text,     \* local of extract: the OCR text
    llm_result,         \* local of extract: last result of enhance_extraction
    regex_result,       \* local of extract: result of TextParser.parse
    returned,           \* the record extract returned, or None
    raised,             \* the error extract raised, or None
    method_log,         \* every assignment to extraction_method, in order
    enh_calls,          \* every call of enhance_extraction: its arguments
    probes,             \* every call of llm_enhancer.is_available: its result
    probe,              \* records under the two scorers (ScoreSpec only)
    parsers,            \* the TextParser instances: their attributes
    input,              \* the text under test (ParserSpec, FieldSpec)
    calls,              \* the calls made on the pattern engine and on the
                        \* enhancer's converter, in order, with results
    paddleocr,          \* the PaddleOCRProcessor instances: their attributes
    files,              \* the temporary files that exist
    frame,              \* a call of extract at its text acquisition (OcrSpec)
    inflight            \* the requests of the endpoint in flight
                        \* (ConcurrentSpec)

vars == <<docling_available, pc, file_extension, use_llm, use_docling,
          ocr_method, tmp_file, structured_data, docling_text,
          extracted_text, llm_result, regex_result, returned, raised,
          method_log, enh_calls, probes, probe, parsers, input, calls,
          paddleocr, files, frame, inflight>>

(***************************************************************************)
(* Bounds of the model.                                                    *)
(***************************************************************************)
\* the language model answers with the first 0..MaxKeys keys of JsonOrder
MaxKeys == 9
\* a text has at most MaxLines lines
MaxLines == 5
\* at most MaxCalls calls are made on the text under test
MaxCalls == 3
\* pages of a PDF
MaxPages == 2
\* extractions counted by a PaddleOCRProcessor when a call of extract starts
MaxExtractions == 2

(***************************************************************************)
(* Values.                                                                 *)
(***************************************************************************)
\* Optional[T] is a sequence of length 0 (None) or 1 (the value)
None == <<>>
Some(x) == <<x>>
\* a string the language model wrote into its JSON
LVal == "L"
\* a string a pattern rule captured from a text
TVal == "T"
\* units of confidence: 1.0 is ConfScale
ConfScale == 70 * 72

Min(a, b) == IF a < b THEN a ELSE b

\* Python truth value of an Optional[str]: None and "" are false
TruthyStr(x) == x # None /\ x # Some("")
\* Python truth value of an Optional[model object]: only None is false
TruthyObj(x) == x # None
\* Python truth value of a list: empty is false
TruthyList(x) == x # <<>>
\* a dict is a function on its keys; {} has no key
EmptyDict == [k \in {} |-> <<>>]
\* Python truth value of an Optional[dict]: None and {} are false
TruthyDict(x) == x # None /\ DOMAIN x[1] # {}
\* dict.get(key, default)
DictGet(d, key, default) == IF key \in DOMAIN d THEN d[key] ELSE default

(***************************************************************************)
(* models.py: BillOfLadingData() with every field at its default.          *)
(***************************************************************************)
BillOfLadingData ==
    [bl_number |-> None, booking_number |-> None,
     shipper |-> None, consignee |-> None, notify_party |-> None,
     port_of_loading |-> None, port_of_discharge |-> None,
     port_of_delivery |-> None,
     transport_details |-> None,
     cargo |-> <<>>, containers |-> <<>>,
     freight_terms |-> None, issue_date |-> None,
     extraction_confidence |-> None, extraction_method |-> None,
     raw_text |-> None]

Party(name, address) == [name |-> name, address |-> address]
Port(name) == [name |-> name]
Cargo(description, quantity, weight, volume) ==
    [description |-> description, quantity |-> quantity, weight |-> weight,
     volume |-> volume]
Container(number) == [number |-> number]
TransportDetails(vessel_name, voyage_number, bl_number, booking_number, departure_date, arrival_date) ==
    [vessel_name |-> vessel_name, voyage_number |-> voyage_number,
     bl_number |-> bl_number, booking_number |-> booking_number,
     departure_date |-> departure_date, arrival_date |-> arrival_date]

(***************************************************************************)
(* TextParser._calculate_confidence (text_parser.py 250-286).              *)
(***************************************************************************)
RECURSIVE SumWeights_CountsEmpty(_, _, _)
\* mutant of the test "if field:": the empty fields are the ones counted
SumWeights_CountsEmpty(fields, w, onlyFilled) ==
    IF fields = <<>> THEN 0
    ELSE (IF onlyFilled /\ Head(fields) THEN 0 ELSE w)
         + SumWeights_CountsEmpty(Tail(fields), w, onlyFilled)

RECURSIVE SumWeights(_, _, _)
\* the loops "for field in fields: total += w; if field: filled += w";
\* fields holds the truth value of each field, in list order
SumWeights(fields, w, onlyFilled) ==
    IF fields = <<>> THEN 0
    ELSE (IF onlyFilled /\ ~Head(fields) THEN 0 ELSE w)
         + SumWeights(Tail(fields), w, onlyFilled)

ParserCritical(data) ==
    <<TruthyStr(data.bl_number), TruthyObj(data.shipper),
      TruthyObj(data.consignee), TruthyObj(data.port_of_loading),
      TruthyObj(data.port_of_discharge)>>

ParserBonus(data) ==
    <<TruthyStr(data.booking_number), TruthyObj(data.transport_details),
      TruthyList(data.cargo), TruthyList(data.containers)>>

ParserTotal(data) ==
    SumWeights(ParserCritical(data), 10, FALSE)
    + SumWeights(ParserBonus(data), 5, FALSE)

ParserFilled(data) ==
    SumWeights(ParserCritical(data), 10, TRUE)
    + SumWeights(ParserBonus(data), 5, TRUE)

CalculateConfidence(data) ==
    IF ParserTotal(data) = 0 THEN 0
    ELSE Min((ParserFilled(data) * ConfScale) \div ParserTotal(data),
             ConfScale)

(***************************************************************************)
(* LLMEnhancer._calculate_llm_confidence (llm_enhancer.py 245-290).        *)
(***************************************************************************)
LlmCritical(data) ==
    <<TruthyStr(data.bl_number), TruthyObj(data.shipper),
      TruthyObj(data.consignee), TruthyObj(data.port_of_loading),
      TruthyObj(data.port_of_discharge)>>

LlmImportant(data) ==
    <<TruthyStr(data.booking_number), TruthyObj(data.transport_details),
      TruthyList(data.cargo), TruthyStr(data.freight_terms)>>

LlmTotal(data) ==
    SumWeights(LlmCritical(data), 10, FALSE)
    + SumWeights(LlmImportant(data), 5, FALSE) + 2

LlmFilled(data) ==
    SumWeights(LlmCritical(data), 10, TRUE)
    + SumWeights(LlmImportant(data), 5, TRUE)
    + (IF TruthyList(data.containers) THEN 2 ELSE 0)

\* mutant of line 290: the bonus is applied without min(..., 1.0)
CalculateLlmConfidence_NoCap(data) ==
    IF LlmTotal(data) = 0 THEN 0
    ELSE (((LlmFilled(data) * ConfScale) \div LlmTotal(data)) * 11) \div 10

CalculateLlmConfidence(data) ==
    IF LlmTotal(data) = 0 THEN 0
    ELSE Min((((LlmFilled(data) * ConfScale) \div LlmTotal(data)) * 11)
                 \div 10,
             ConfScale)

(***************************************************************************)
(* Strings and characters.  A text is a string; its characters are the     *)
(* one-character strings SubSeq(s, i, i).                                  *)
(***************************************************************************)
Chars(s) == {SubSeq(s, i, i) : i \in 1..Len(s)}

UpperLetters == "ABCDEFGHIJKLMNOPQRSTUVWXYZÉÀ"
LowerLetters == "abcdefghijklmnopqrstuvwxyzéà"
Digits == "0123456789"

\* the character classes of the patterns, by their source text; with
\* re.IGNORECASE a class of letters holds both cases
CharClass ==
    [c \in {"\\s", "[\\s\\w]", "[A-Z0-9]", "[A-Z]", "[0-9]", "[A-Z\\s]",
            "[A-Z\\s,]", "[A-Za-z\\s\\d,.\\-]", "\\d", "[\\/\\-\\.]", ":",
            "[\\w\\s\\-\\.:,/()#]"} |->
        LET space == {" ", "\n", "\t", "\r", "\f"}
            az == Chars("ABCDEFGHIJKLMNOPQRSTUVWXYZabcdefghijklmnopqrstuvwxyz")
            digit == Chars(Digits)
            word == Chars(UpperLetters) \cup Chars(LowerLetters) \cup digit
                        \cup {"_", "³"}
        IN  CASE c = "\\s" -> space
              [] c = "[\\s\\w]" -> space \cup word
              [] c = "[A-Z0-9]" -> az \cup digit
              [] c = "[A-Z]" -> az
              [] c = "[0-9]" -> digit
              [] c = "[A-Z\\s]" -> az \cup space
              [] c = "[A-Z\\s,]" -> az \cup space \cup {","}
              [] c = "[A-Za-z\\s\\d,.\\-]" ->
                     az \cup space \cup digit \cup {",", ".", "-"}
              [] c = "\\d" -> digit
              [] c = "[\\/\\-\\.]" -> {"/", "-", "."}
              [] c = ":" -> {":"}
              [] c = "[\\w\\s\\-\\.:,/()#]" ->
                     word \cup space \cup {"-", ".", ":", ",", "/", "(", ")",
                                           "#"}]

RECURSIVE JoinRange(_, _, _)
\* P[lo] \o ... \o P[hi]
JoinRange(P, lo, hi) ==
    IF lo > hi THEN ""
    ELSE IF lo = hi THEN P[lo]
    ELSE LET mid == (lo + hi) \div 2 IN
         JoinRange(P, lo, mid) \o JoinRange(P, mid + 1, hi)

RECURSIVE FirstSome(_, _, _)
\* F[i] for the least i of lo..hi where it is not None
FirstSome(F, lo, hi) ==
    IF lo > hi THEN None
    ELSE IF lo = hi THEN F[lo]
    ELSE LET mid == (lo + hi) \div 2
             left == FirstSome(F, lo, mid)
         IN  IF left # None THEN left ELSE FirstSome(F, mid + 1, hi)

RECURSIVE LastSome(_, _, _)
\* F[i] for the greatest i of lo..hi where it is not None
LastSome(F, lo, hi) ==
    IF lo > hi THEN None
    ELSE IF lo = hi THEN F[lo]
    ELSE LET mid == (lo + hi) \div 2
             right == LastSome(F, mid + 1, hi)
         IN  IF right # None THEN right ELSE LastSome(F, lo, mid)

\* F[c] for every character c of s, in order
MapChars(F, s) ==
    JoinRange([i \in 1..Len(s) |-> F[SubSeq(s, i, i)]], 1, Len(s))

UpperOf ==
    [c \in Chars(LowerLetters) |->
        LET i == CHOOSE j \in 1..Len(LowerLetters) :
                     SubSeq(LowerLetters, j, j) = c
        IN  SubSeq(UpperLetters, i, i)]

\* str.upper()
Upper(s) ==
    MapChars([c \in Chars(s) |->
                 IF c \in DOMAIN UpperOf THEN UpperOf[c] ELSE c], s)

RECURSIVE LStrip(_)
LStrip(s) ==
    IF s # "" /\ Head(s) \in CharClass["\\s"] THEN LStrip(Tail(s)) ELSE s

RECURSIVE RStrip(_)
RStrip(s) ==
    IF s # "" /\ SubSeq(s, Len(s), Len(s)) \in CharClass["\\s"]
    THEN RStrip(SubSeq(s, 1, Len(s) - 1)) ELSE s

\* str.strip()
Strip(s) == LStrip(RStrip(s))

RECURSIVE Split(_, _)
\* str.split(sep) for a separator of one character
Split(s, sep) ==
    LET at == FirstSome([i \in 1..Len(s) |->
                            IF SubSeq(s, i, i) = sep THEN Some(i) ELSE None],
                        1, Len(s))
    IN  IF at = None THEN <<s>>
        ELSE <<SubSeq(s, 1, at[1] - 1)>>
             \o Split(SubSeq(s, at[1] + 1, Len(s)), sep)

\* sep.join(parts)
Join(parts, sep) ==
    JoinRange([i \in 1..Len(parts) |->
                  IF i = 1 THEN parts[i] ELSE sep \o parts[i]],
              1, Len(parts))

(***************************************************************************)
(* Regular expressions, as far as the patterns use them.  A pattern is a   *)
(* sequence of elements: ordered literal alternatives (?:A|B), a greedy    *)
(* repetition of a character class, a greedy optional group (?:...)?, and  *)
(* the two ends of the capture group.  Matching backtracks in the order    *)
(* of the re module: alternatives left to right, longer repetitions first. *)
(***************************************************************************)
Alt(alts) ==
    [k |-> "alt", alts |-> alts, cls |-> "", min |-> 0, max |-> None,
     sub |-> <<>>]
Rep(cls, min, max) ==
    [k |-> "rep", alts |-> <<>>, cls |-> cls, min |-> min, max |-> max,
     sub |-> <<>>]
Opt(sub) ==
    [k |-> "opt", alts |-> <<>>, cls |-> "", min |-> 0, max |-> None,
     sub |-> sub]
GroupOpen ==
    [k |-> "open", alts |-> <<>>, cls |-> "", min |-> 0, max |-> None,
     sub |-> <<>>]
GroupClose ==
    [k |-> "close", alts |-> <<>>, cls |-> "", min |-> 0, max |-> None,
     sub |-> <<>>]
Group(re) == <<GroupOpen>> \o re \o <<GroupClose>>

RECURSIVE RunIn(_, _, _, _)
\* the length of the longest prefix of text[lo..hi] made of characters of
\* the set chars
RunIn(chars, text, lo, hi) ==
    IF lo > hi THEN 0
    ELSE IF lo = hi THEN (IF SubSeq(text, lo, lo) \in chars THEN 1 ELSE 0)
    ELSE LET mid == (lo + hi) \div 2
             left == RunIn(chars, text, lo, mid)
         IN  IF left < mid - lo + 1 THEN left
             ELSE left + RunIn(chars, text, mid + 1, hi)

\* how many characters of the class follow at pos, at most max of them
RunLength(cls, text, pos, max) ==
    RunIn(CharClass[cls], text, pos,
          IF max = None \/ pos + max[1] - 1 > Len(text)
          THEN Len(text) ELSE pos + max[1] - 1)

LitAt(lit, text, pos) ==
    /\ pos + Len(lit) - 1 <= Len(text)
    /\ SubSeq(text, pos, pos + Len(lit) - 1) = lit

RECURSIVE MatchHere(_, _, _, _)
RECURSIVE MatchAlts(_, _, _, _, _)
\* the first way, in backtracking order, in which re matches text at pos:
\* the end of the match and the span of the group, or None
MatchHere(re, text, pos, group) ==
    IF re = <<>> THEN Some([end |-> pos, s |-> group.s, e |-> group.e])
    ELSE LET el == Head(re)
             rest == Tail(re)
         IN  CASE el.k = "alt" -> MatchAlts(el.alts, rest, text, pos, group)
               [] el.k = "rep" ->
                    LastSome([n \in 0..Len(text) |->
                                 MatchHere(rest, text, pos + n, group)],
                             el.min, RunLength(el.cls, text, pos, el.max))
               [] el.k = "opt" ->
                    LET m == MatchHere(el.sub \o rest, text, pos, group) IN
                    IF m # None THEN m ELSE MatchHere(rest, text, pos, group)
               [] el.k = "open" ->
                    MatchHere(rest, text, pos, [group EXCEPT !.s = pos])
               [] el.k = "close" ->
                    MatchHere(rest, text, pos, [group EXCEPT !.e = pos])

MatchAlts(alts, rest, text, pos, group) ==
    IF alts = <<>> THEN None
    ELSE LET m == IF LitAt(Head(alts), text, pos)
                  THEN MatchHere(rest, text, pos + Len(Head(alts)), group)
                  ELSE None
         IN  IF m # None THEN m
             ELSE MatchAlts(Tail(alts), rest, text, pos, group)

\* the leftmost match of re in text that starts at pos or later
SearchFrom(re, text, pos) ==
    FirstSome([i \in 1..(Len(text) + 1) |->
                  MatchHere(re, text, i, [s |-> 0, e |-> 0])],
              pos, Len(text) + 1)

\* match.group(1) of a match object, None without a match
GroupOf(m, text) ==
    IF m = None THEN None ELSE Some(SubSeq(text, m[1].s, m[1].e - 1))

\* re.search(pattern, text, re.IGNORECASE) and match.group(1): the patterns
\* spell their literals in upper case, so the match is sought in the
\* upper-cased text and the capture is cut out of the text itself
Search(re, text) == GroupOf(SearchFrom(re, Upper(text), 1), text)

RECURSIVE FindAllFrom(_, _, _, _)
RECURSIVE FindAllAfter(_, _, _, _)
\* the captures of the matches that start at pos or later
FindAllFrom(re, folded, text, pos) ==
    FindAllAfter(SearchFrom(re, folded, pos), re, folded, text)

\* the capture of the match m and those of the matches after its end
FindAllAfter(m, re, folded, text) ==
    IF m = None THEN <<>>
    ELSE <<SubSeq(text, m[1].s, m[1].e - 1)>>
         \o FindAllFrom(re, folded, text, m[1].end)

\* re.findall(pattern, text, re.IGNORECASE) for a pattern with one group:
\* the captures of the successive non-overlapping matches
FindAll(re, text) == FindAllFrom(re, Upper(text), text, 1)
(***************************************************************************)
(* The texts of the model: runs of consecutive lines of one document.      *)
(***************************************************************************)
DocumentLines ==
    <<"Connaissement No: EFGH0987654321",
      "BILL OF LADING NO: ABCD1234567890",
      "SHIPPER: ACME SHIPPING COMPANY",
      "123 MAIN STREET, HAMBURG, GERMANY",
      "PORT OF LOADING: HAMBURG, GERMANY",
      "PORT OF DISCHARGE: NEW YORK, USA",
      "BOOKING NO: BKG12345678",
      "CTR NO: ABCD1234567",
      "CONTAINER: EFGH1234567",
      "DESCRIPTION: STEEL PIPES & TUBES",
      "Commodity: Steel products ltd",
      "WEIGHT: 1200.5 KG",
      "VOLUME: 33 CBM">>

\* the n lines that start at line first, one per line of the text
Document(first, n) ==
    Join(SubSeq(DocumentLines, first, first + n - 1), "\n")

\* the French document of benchmark_llm.py: its document number line, its
\* shipper line with the address line, and its two port lines
FrenchLines ==
    <<"CONNAISSEMENT NO: FR789012345",
      "EXPEDITEUR: SOCIETE MARITIME FRANCAISE",
      "12 RUE DU PORT, MARSEILLE, FRANCE",
      "PORT DE CHARGEMENT: MARSEILLE, FRANCE",
      "PORT DE DECHARGEMENT: MONTREAL, CANADA">>

ScenarioB == Join(FrenchLines, "\n")

\* every text of at most MaxLines consecutive lines, and the French text
Documents ==
    UNION {{Document(first, n) :
               n \in 0..Min(MaxLines, Len(DocumentLines) - first + 1)} :
           first \in 1..Len(DocumentLines)}
    \cup {ScenarioB}

\* the line the document of quick_test.py starts at
ScenarioStart == 2

\* the OCR text of a request: the first k lines of that document
TextOf(k) == Document(ScenarioStart, k)

Texts == {TextOf(k) : k \in 0..MaxLines}

\* what DoclingProcessor.extract_text returns for the document
DoclingTexts == {"## BILL OF LADING"}

(***************************************************************************)
(* TextParser._init_patterns (text_parser.py 18-80): the ordered rule      *)
(* lists of self.patterns.                                                 *)
(***************************************************************************)
\* [\s\w]*:?\s*, the tail of a label in the first rule of every field
LabelTail ==
    <<Rep("[\\s\\w]", 0, None), Rep(":", 0, Some(1)), Rep("\\s", 0, None)>>
\* \s*:?\s*
ColonTail ==
    <<Rep("\\s", 0, None), Rep(":", 0, Some(1)), Rep("\\s", 0, None)>>
\* \s*(?:NO|NUMBER|#):?\s*
NumberTail ==
    <<Rep("\\s", 0, None), Alt(<<"NO", "NUMBER", "#">>),
      Rep(":", 0, Some(1)), Rep("\\s", 0, None)>>
\* (\d+(?:\.\d+)?)\s*
Quantity ==
    Group(<<Rep("\\d", 1, None),
            Opt(<<Alt(<<".">>), Rep("\\d", 1, None)>>)>>)
    \o <<Rep("\\s", 0, None)>>
\* ([A-Za-z\s\d,.\-]{10,n})
FreeText(n) == Group(<<Rep("[A-Za-z\\s\\d,.\\-]", 10, Some(n))>>)
\* ([A-Z0-9]{8,20})
Reference == Group(<<Rep("[A-Z0-9]", 8, Some(20))>>)
\* ([A-Z]{4}[0-9]{7})
ContainerId ==
    Group(<<Rep("[A-Z]", 4, Some(4)), Rep("[0-9]", 7, Some(7))>>)
\* ([A-Z\s,]{5,40})
PortName == Group(<<Rep("[A-Z\\s,]", 5, Some(40))>>)
\* (PREPAID|COLLECT|PAYABLE|PRÉPAYÉ)
Terms == Group(<<Alt(<<"PREPAID", "COLLECT", "PAYABLE", "PRÉPAYÉ">>)>>)
\* (\d{1,2}[\/\-\.]\d{1,2}[\/\-\.]\d{2,4})
Date ==
    Group(<<Rep("\\d", 1, Some(2)), Rep("[\\/\\-\\.]", 1, Some(1)),
            Rep("\\d", 1, Some(2)), Rep("[\\/\\-\\.]", 1, Some(1)),
            Rep("\\d", 2, Some(4))>>)

patterns ==
    [bl_number |->
        <<<<Alt(<<"B/L", "BL", "BILL OF LADING">>)>> \o LabelTail
              \o Reference,
          <<Alt(<<"BILL OF LADING", "BL">>)>> \o NumberTail \o Reference,
          <<Alt(<<"CONNAISSEMENT", "CONNAISSANCE">>)>> \o LabelTail
              \o Reference>>,
     booking_number |->
        <<<<Alt(<<"BOOKING", "RÉSERVATION">>)>> \o LabelTail \o Reference,
          <<Alt(<<"BOOKING", "BKG">>)>> \o NumberTail \o Reference>>,
     container_number |->
        <<<<Alt(<<"CONTAINER", "CONTENEUR">>)>> \o LabelTail
              \o ContainerId,
          <<Alt(<<"CNTR", "CTR">>)>> \o NumberTail \o ContainerId>>,
     vessel_name |->
        <<<<Alt(<<"VESSEL", "NAVIRE", "SHIP">>)>> \o LabelTail
              \o Group(<<Rep("[A-Z\\s]", 3, Some(30))>>),
          <<Alt(<<"VESSEL", "NAVIRE">>), Rep("\\s", 0, None),
            Alt(<<"NAME", "NOM">>), Rep(":", 0, Some(1)),
            Rep("\\s", 0, None)>>
              \o Group(<<Rep("[A-Z\\s]", 3, Some(30))>>)>>,
     voyage_number |->
        <<<<Alt(<<"VOYAGE", "VOY">>)>> \o LabelTail
              \o Group(<<Rep("[A-Z0-9]", 3, Some(15))>>),
          <<Alt(<<"VOYAGE", "VOY">>)>> \o NumberTail
              \o Group(<<Rep("[A-Z0-9]", 3, Some(15))>>)>>,
     port_of_loading |->
        <<<<Alt(<<"PORT OF LOADING", "POL", "PORT DE CHARGEMENT">>)>>
              \o LabelTail \o PortName,
          <<Alt(<<"LOADED ON BOARD", "CHARGÉ À BORD">>)>> \o LabelTail
              \o PortName>>,
     port_of_discharge |->
        <<<<Alt(<<"PORT OF DISCHARGE", "POD", "PORT DE DÉCHARGEMENT">>)>>
              \o LabelTail \o PortName,
          <<Alt(<<"DISCHARGE", "DÉCHARGEMENT">>)>> \o LabelTail
              \o PortName>>,
     shipper |->
        <<<<Alt(<<"SHIPPER", "EXPÉDITEUR", "CHARGEUR">>)>> \o LabelTail
              \o FreeText(100),
          <<Alt(<<"SHIPPER", "EXPÉDITEUR">>)>> \o ColonTail
              \o FreeText(100)>>,
     consignee |->
        <<<<Alt(<<"CONSIGNEE", "DESTINATAIRE", "RÉCEPTIONNAIRE">>)>>
              \o LabelTail \o FreeText(100),
          <<Alt(<<"CONSIGNEE", "DESTINATAIRE">>)>> \o ColonTail
              \o FreeText(100)>>,
     notify_party |->
        <<<<Alt(<<"NOTIFY", "NOTIFIER", "PARTIE À NOTIFIER">>)>>
              \o LabelTail \o FreeText(100),
          <<Alt(<<"NOTIFY PARTY", "PARTIE À NOTIFIER">>)>> \o ColonTail
              \o FreeText(100)>>,
     freight_terms |->
        <<<<Alt(<<"FREIGHT", "FRET", "PAYABLE">>)>> \o LabelTail \o Terms,
          <<Alt(<<"FREIGHT PAYABLE", "FRET PAYABLE">>)>> \o ColonTail
              \o Terms>>,
     issue_date |->
        <<<<Alt(<<"ISSUE", "ÉMISSION", "DATE">>)>> \o LabelTail \o Date,
          <<Alt(<<"ISSUED", "ÉMIS">>)>> \o ColonTail \o Date>>,
     weight |->
        <<<<Alt(<<"WEIGHT", "POIDS">>)>> \o LabelTail \o Quantity
              \o <<Alt(<<"KG", "LB", "MT", "T">>)>>,
          <<Alt(<<"GROSS", "BRUT">>), Rep("\\s", 0, None),
            Alt(<<"WEIGHT", "POIDS">>)>> \o ColonTail \o Quantity
              \o <<Alt(<<"KG", "LB", "MT", "T">>)>>>>,
     volume |->
        <<<<Alt(<<"VOLUME", "CBM", "M3">>)>> \o LabelTail \o Quantity
              \o <<Alt(<<"CBM", "M3", "M³">>)>>,
          <<Alt(<<"MEASUREMENT", "MESURE">>)>> \o ColonTail \o Quantity
              \o <<Alt(<<"CBM", "M3", "M³">>)>>>>]

\* TextParser(): the attributes __init__ assigns; the threshold in tenths
TextParser == [confidence_threshold |-> 7, patterns |-> patterns]

(***************************************************************************)
(* TextParser (text_parser.py).  self is the state of the instance.        *)
(***************************************************************************)
\* line 145: re.sub(r'[^\w\s\-\.:,/()#]', ' ', text)
RemoveSpecial(text) ==
    MapChars([c \in Chars(text) |->
                 IF c \in CharClass["[\\w\\s\\-\\.:,/()#]"]
                 THEN c ELSE " "],
             text)

\* line 148: re.sub(r'\s+', ' ', cleaned)
NormalizeSpaces(cleaned) ==
    JoinRange([i \in 1..Len(cleaned) |->
                  IF SubSeq(cleaned, i, i) \notin CharClass["\\s"]
                  THEN SubSeq(cleaned, i, i)
                  ELSE IF i > 1 /\ SubSeq(cleaned, i - 1, i - 1)
                                       \in CharClass["\\s"]
                       THEN "" ELSE " "],
              1, Len(cleaned))

\* _clean_text: characters outside [\w\s\-\.:,/()#] become a space, runs
\* of whitespace become one space, then upper() and strip()
CleanText(text) == Strip(Upper(NormalizeSpaces(RemoveSpecial(text))))

RECURSIVE FirstMatch(_, _)
RECURSIVE MatchOrNext(_, _, _)
\* the loop of _extract_field over the rules of one field, in order
FirstMatch(rules, text) ==
    IF rules = <<>> THEN None
    ELSE MatchOrNext(Search(Head(rules), text), Tail(rules), text)

\* lines 162-163: a match ends the loop with its stripped capture
MatchOrNext(match, rules, text) ==
    IF match # None THEN Some(Strip(match[1]))
    ELSE FirstMatch(rules, text)

\* mutant of lines 160-163: the loop does not return at the first rule
\* that matches, so the last matching rule wins
ExtractField_LastRuleWins(self, text, field_name) ==
    IF field_name \notin DOMAIN self.patterns THEN None
    ELSE LET rules == self.patterns[field_name]
             Reversed == [i \in 1..Len(rules) |-> rules[Len(rules) + 1 - i]]
         IN  FirstMatch(Reversed, text)

\* _extract_field: the capture of the first rule that matches, else None
ExtractField(self, text, field_name) ==
    IF field_name \notin DOMAIN self.patterns THEN None
    ELSE FirstMatch(self.patterns[field_name], text)

\* lines 177-183: the Party made of the lines of the capture
PartyOfLines(lines) ==
    Party(Some(Strip(lines[1])),
          IF Len(lines) > 1 THEN Some(Strip(Join(Tail(lines), "\n")))
          ELSE None)

\* lines 171-183: no Party without a capture
PartyOf(party_info) ==
    IF ~TruthyStr(party_info) THEN None
    ELSE Some(PartyOfLines(Split(party_info[1], "\n")))

\* _extract_party: the capture is split at newlines; lines[0] is the name,
\* the other lines, if any, are the address
ExtractParty(self, text, party_type) ==
    PartyOf(ExtractField(self, text, party_type))

\* mutant of lines 189-190: a Port is built whether or not a name was found
PortOf_Always(port_info) ==
    Some(Port(IF port_info = None THEN None
              ELSE Some(Strip(port_info[1]))))

\* lines 189-195: no Port without a capture
PortOf(port_info) ==
    IF ~TruthyStr(port_info) THEN None
    ELSE Some(Port(Some(Strip(port_info[1]))))

\* _extract_port
ExtractPort(self, text, port_type) ==
    PortOf(ExtractField(self, text, port_type))

\* mutant of line 207: the booking number counts as transport information
TransportOrNone_AnyOfFour(transport) ==
    IF ~(TruthyStr(transport.vessel_name)
         \/ TruthyStr(transport.voyage_number)
         \/ TruthyStr(transport.bl_number)
         \/ TruthyStr(transport.booking_number))
    THEN None
    ELSE Some(transport)

\* lines 206-210: None if not any([vessel_name, voyage_number, bl_number])
TransportOrNone(transport) ==
    IF ~(TruthyStr(transport.vessel_name)
         \/ TruthyStr(transport.voyage_number)
         \/ TruthyStr(transport.bl_number))
    THEN None
    ELSE Some(transport)

\* _extract_transport_details
ExtractTransportDetails(self, text) ==
    TransportOrNone(
        TransportDetails(ExtractField(self, text, "vessel_name"),
                         ExtractField(self, text, "voyage_number"),
                         ExtractField(self, text, "bl_number"),
                         ExtractField(self, text, "booking_number"),
                         None, None))

\* the two rules of cargo_patterns (lines 217-220), in order
cargo_patterns ==
    <<<<Alt(<<"DESCRIPTION", "GOODS", "MARCHANDISES">>)>> \o LabelTail
          \o FreeText(200),
      <<Alt(<<"COMMODITY", "PRODUIT">>)>> \o LabelTail \o FreeText(200)>>

\* lines 224-230: the inner loop over the matches of one rule, left at
\* its first turn
FirstCargo(self, text, matches) ==
    IF matches = <<>> THEN <<>>
    ELSE <<Cargo(Some(Strip(matches[1])), None,
                 ExtractField(self, text, "weight"),
                 ExtractField(self, text, "volume"))>>

RECURSIVE ExtractCargoFrom(_, _, _)
\* _extract_cargo: the outer loop over cargo_patterns; the break leaves the
\* inner loop over the matches of one rule only
ExtractCargoFrom(self, text, rules) ==
    IF rules = <<>> THEN <<>>
    ELSE FirstCargo(self, text, FindAll(Head(rules), text))
         \o ExtractCargoFrom(self, text, Tail(rules))

ExtractCargo(self, text) == ExtractCargoFrom(self, text, cargo_patterns)

RECURSIVE ContainerNumbers(_, _)
\* lines 238-241: findall of each rule in turn, the lists concatenated
ContainerNumbers(rules, text) ==
    IF rules = <<>> THEN <<>>
    ELSE FindAll(Head(rules), text) \o ContainerNumbers(Tail(rules), text)

\* lines 243-246: one Container for every number
ContainersOf(container_numbers) ==
    [i \in 1..Len(container_numbers) |->
        Container(Some(Strip(container_numbers[i])))]

\* _extract_containers
ExtractContainers(self, text) ==
    ContainersOf(ContainerNumbers(self.patterns["container_number"], text))

\* the record TextParser.parse assembles from the cleaned text before
\* scoring it (lines 99-125)
ParseFields(self, cleaned_text) ==
    [BillOfLadingData EXCEPT
        !.bl_number = ExtractField(self, cleaned_text, "bl_number"),
        !.booking_number = ExtractField(self, cleaned_text, "booking_number"),
        !.shipper = ExtractParty(self, cleaned_text, "shipper"),
        !.consignee = ExtractParty(self, cleaned_text, "consignee"),
        !.notify_party = ExtractParty(self, cleaned_text, "notify_party"),
        !.port_of_loading = ExtractPort(self, cleaned_text, "port_of_loading"),
        !.port_of_discharge =
            ExtractPort(self, cleaned_text, "port_of_discharge"),
        !.transport_details = ExtractTransportDetails(self, cleaned_text),
        !.cargo = ExtractCargo(self, cleaned_text),
        !.containers = ExtractContainers(self, cleaned_text),
        !.freight_terms = ExtractField(self, cleaned_text, "freight_terms"),
        !.issue_date = ExtractField(self, cleaned_text, "issue_date")]

\* line 128: data.extraction_confidence = self._calculate_confidence(data)
Scored(data) ==
    [data EXCEPT !.extraction_confidence = Some(CalculateConfidence(data))]

\* mutant of lines 137-140: the record of the except branch carries no
\* confidence
Parse_ErrorWithoutConfidence(self, text, throws) ==
    IF throws
    THEN [BillOfLadingData EXCEPT !.raw_text = Some(text)]
    ELSE Scored(ParseFields(self, CleanText(text)))

\* TextParser.parse; throws is TRUE when a step of the try block raises
Parse(self, text, throws) ==
    IF throws
    THEN [BillOfLadingData EXCEPT !.extraction_confidence = Some(0),
                                  !.raw_text = Some(text)]
    ELSE Scored(ParseFields(self, CleanText(text)))

(***************************************************************************)
(* LLMEnhancer (llm_enhancer.py).                                          *)
(***************************************************************************)
model_name == "gemma3:12b"

\* the keys of the JSON object the prompt asks for
JsonOrder ==
    <<"bl_number", "shipper_name", "consignee_name", "port_of_loading",
      "port_of_discharge", "booking_number", "vessel_name",
      "cargo_description", "freight_terms", "container_numbers",
      "shipper_address", "consignee_address", "notify_party_name",
      "notify_party_address", "port_of_delivery", "voyage_number",
      "departure_date", "arrival_date", "quantity", "weight", "volume",
      "issue_date">>

JsonKeys == {JsonOrder[i] : i \in 1..Len(JsonOrder)}

\* a JSON object with the first k keys set and null for the others;
\* container_numbers, when set, is a list of one number
LlmJson(k) ==
    [key \in JsonKeys |->
        IF \E i \in 1..Min(k, Len(JsonOrder)) : JsonOrder[i] = key
        THEN Some(LVal) ELSE None]

\* the exceptions a run of enhance_extraction can meet: json.dumps of a
\* hint that is not serialisable, ollama.generate failing or timing out,
\* an answer that is not JSON, a JSON answer that is not an object
ExceptionKinds == {"prompt_error", "ollama_error", "bad_json", "non_dict"}

\* what ollama.generate and the parsing of its answer can come to: an
\* exception, an empty (falsy) JSON value, or a JSON object
LlmOutcomes ==
    {[kind |-> f, data |-> LlmJson(0)] : f \in ExceptionKinds \cup {"empty"}}
    \cup {[kind |-> "dict", data |-> LlmJson(k)] : k \in 0..MaxKeys}

\* the outcomes possible for a given hint: the prompt embeds the hint with
\* json.dumps only when there is one
LlmOutcomesFor(hint) ==
    {o \in LlmOutcomes : o.kind = "prompt_error" => TruthyDict(hint)}

\* mutant of lines 53-55 and 140-142: only JSONDecodeError is handled
EnhancerCatches_JsonOnly(kind) == kind \in {"bad_json"}

\* the except clauses of _query_llm (lines 136-142) and enhance_extraction
\* (lines 53-55): JSONDecodeError and Exception, that is every kind
EnhancerCatches(kind) == kind \in ExceptionKinds

\* an exception leaves enhance_extraction
EnhancerRaises(outcome) ==
    outcome.kind \in ExceptionKinds /\ ~EnhancerCatches(outcome.kind)

\* _create_extraction_prompt builds the prompt and ends without a return
\* statement: its caller receives None
CreateExtractionPrompt(text, hint) == None

\* _convert_to_bill_of_lading
ConvertToBillOfLading(llm_data) ==
    [BillOfLadingData EXCEPT
        !.bl_number = llm_data["bl_number"],
        !.booking_number = llm_data["booking_number"],
        !.shipper =
            IF TruthyStr(llm_data["shipper_name"])
            THEN Some(Party(llm_data["shipper_name"],
                            llm_data["shipper_address"]))
            ELSE None,
        !.consignee =
            IF TruthyStr(llm_data["consignee_name"])
            THEN Some(Party(llm_data["consignee_name"],
                            llm_data["consignee_address"]))
            ELSE None,
        !.notify_party =
            IF TruthyStr(llm_data["notify_party_name"])
            THEN Some(Party(llm_data["notify_party_name"],
                            llm_data["notify_party_address"]))
            ELSE None,
        !.port_of_loading =
            IF TruthyStr(llm_data["port_of_loading"])
            THEN Some(Port(llm_data["port_of_loading"])) ELSE None,
        !.port_of_discharge =
            IF TruthyStr(llm_data["port_of_discharge"])
            THEN Some(Port(llm_data["port_of_discharge"])) ELSE None,
        !.port_of_delivery =
            IF TruthyStr(llm_data["port_of_delivery"])
            THEN Some(Port(llm_data["port_of_delivery"])) ELSE None,
        !.transport_details =
            IF TruthyStr(llm_data["vessel_name"])
               \/ TruthyStr(llm_data["voyage_number"])
            THEN Some(TransportDetails(llm_data["vessel_name"],
                                       llm_data["voyage_number"],
                                       llm_data["bl_number"],
                                       llm_data["booking_number"],
                                       llm_data["departure_date"],
                                       llm_data["arrival_date"]))
            ELSE None,
        !.cargo =
            IF TruthyStr(llm_data["cargo_description"])
            THEN <<Cargo(llm_data["cargo_description"],
                         llm_data["quantity"], llm_data["weight"],
                         llm_data["volume"])>>
            ELSE <<>>,
        !.containers =
            LET container_numbers == llm_data["container_numbers"] IN
            SelectSeq([i \in 1..Len(container_numbers) |->
                          Container(Some(container_numbers[i]))],
                      LAMBDA c : c.number # Some("")),
        !.freight_terms = llm_data["freight_terms"],
        !.issue_date = llm_data["issue_date"]]

\* the value enhance_extraction writes into extraction_method
EnhancerMethod == "llm_" \o model_name

\* mutant of line 43: the enhancer leaves extraction_method unset
EnhanceExtraction_NoMethod(raw_text, hint, outcome) ==
    IF outcome.kind # "dict" THEN None
    ELSE LET enhanced_data == ConvertToBillOfLading(outcome.data)
             marked == [enhanced_data EXCEPT !.raw_text = Some(raw_text)]
         IN  Some([marked EXCEPT !.extraction_confidence =
                                     Some(CalculateLlmConfidence(marked))])

\* enhance_extraction: None on every failure, else the converted record
\* with method, raw text and confidence set
EnhanceExtraction(raw_text, hint, outcome) ==
    IF outcome.kind # "dict" THEN None
    ELSE LET enhanced_data == ConvertToBillOfLading(outcome.data)
             marked == [enhanced_data EXCEPT
                           !.extraction_method = Some(EnhancerMethod),
                           !.raw_text = Some(raw_text)]
         IN  Some([marked EXCEPT !.extraction_confidence =
                                     Some(CalculateLlmConfidence(marked))])

(***************************************************************************)
(* DoclingProcessor (docling_processor.py): the structured hint.           *)
(***************************************************************************)
\* the section groups _extract_bl_sections sorts the text blocks into
SectionNames ==
    {"header_info", "parties", "ports", "cargo_info", "transport_details",
     "footer_info"}

\* a section group is a list of blocks: empty, or holding one block
BlockLists == {<<>>, <<"block">>}

\* bill_of_lading_sections: the six groups, or {} when _extract_bl_sections
\* caught an exception
SectionDicts == [SectionNames -> BlockLists] \cup {EmptyDict}

\* what extract_structured_data returns; of its keys only
\* bill_of_lading_sections is read by the extractor
Hints == {[bill_of_lading_sections |-> secs] : secs \in SectionDicts}

(***************************************************************************)
(* Text acquisition: PaddleOCRProcessor (paddleocr_processor.py),          *)
(* PDFProcessor (pdf_processor.py) and ImageProcessor                      *)
(* (image_processor.py).  Of performance_stats the counter                 *)
(* total_extractions is kept; the two timings are floats read by no        *)
(* request.                                                                *)
(***************************************************************************)
\* PaddleOCRProcessor.__init__, lines 20-26; confidence_threshold 0.5 in
\* tenths
PaddleOCRProcessor ==
    [available |-> TRUE, confidence_threshold |-> 5, total_extractions |-> 0]

\* the owners of a PaddleOCRProcessor: PDFProcessor and ImageProcessor
\* create one each in __init__
Processors == {"pdf_processor", "image_processor"}

\* a temporary file: the copy of the upload, the image of a PDF page, or
\* the preprocessed image of a page (page 0: the upload itself)
TmpFile(kind, page) == [kind |-> kind, page |-> page]

UploadFile == TmpFile("upload", 0)

\* what the OCR engines read on a page
PageTexts == {"", "PAGE"}

\* _preprocess_image, lines 195-216: the image is not loaded or not
\* enhanced and no file is created; or the file is created and imwrite
\* raises; or the file is written
PreprocessOutcomes == {"not_written", "write_error", "written"}

\* self.ocr_engine.ocr, line 114: it raises (None) or returns lines
EngineOutcomes == {None} \cup {Some(text) : text \in PageTexts}

\* lines 120-122: the preprocessed image is deleted after the engine ran
\* if its path differs from the path of the image; _preprocess_image
\* returns the path of the image when imwrite raised
LeftBehind(pre, engine) ==
    \/ pre = "write_error"
    \/ pre = "written" /\ engine = None

\* PaddleOCRProcessor.extract_text, lines 100-133: the processor after the
\* call, the text returned (None: the call raised), and whether a
\* preprocessed image is left behind
PaddleExtractText(self, pre, engine) ==
    IF ~self.available
    THEN [self |-> self, text |-> None, left |-> FALSE]
    ELSE IF engine = None
    THEN [self |-> self, text |-> None, left |-> LeftBehind(pre, engine)]
    ELSE [self |-> [self EXCEPT !.total_extractions = @ + 1],
          text |-> engine, left |-> LeftBehind(pre, engine)]

\* pytesseract.image_to_string(...).strip() inside a handler that returns
\* "" on every error (pdf_processor.py:131-153, image_processor.py:111-144)
TesseractTexts == PageTexts

\* the values of ocr_method: the two the endpoint documents and any other
\* string
AcquireMethods == {"paddleocr", "tesseract", "auto"}

\* pdf_processor.py, lines 100-109: the engine run on a page
PdfBackend(method, available) ==
    IF method = "paddleocr" /\ available THEN "paddleocr"
    ELSE IF method = "tesseract" THEN "tesseract"
    ELSE IF available THEN "paddleocr" ELSE "tesseract"

\* image_processor.py, lines 30-49
ImageBackend(method, available) ==
    IF method = "paddleocr" /\ available THEN "paddleocr"
    ELSE IF method = "tesseract" \/ ~available THEN "tesseract"
    ELSE IF available THEN "paddleocr" ELSE "tesseract"

\* pdf_processor.py, lines 38 and 47: the length a stripped text must
\* exceed
MinTextLength == 50

\* a text of MinTextLength + 1 characters, and one of more characters that
\* strips to MinTextLength
LongText == SubSeq(Document(ScenarioStart, 2), 1, MinTextLength + 1)

PaddedText ==
    "  " \o SubSeq(Document(ScenarioStart, 2), 1, MinTextLength) \o "\n"

\* what docling and pdfplumber return for a PDF
SourceTexts == {"", PaddedText, LongText}

\* a call of a text source returned a text, or raised (None)
SourceOutcomes == {None} \cup {Some(text) : text \in SourceTexts}

\* mutant of lines 38 and 47: the text is measured as it is
Sufficient_Unstripped(text) == text # "" /\ Len(text) > MinTextLength

\* lines 38 and 47: "text and len(text.strip()) > 50"
Sufficient(text) == text # "" /\ Len(Strip(text)) > MinTextLength

\* a text source that was called and what it returned to its caller
Source(name, text) == [source |-> name, text |-> text]

\* lines 121-125: the texts of the pages, one per line
OcrText(text_content) ==
    IF text_content = <<>> THEN "" ELSE Join(text_content, "\n")

\* the frame of a call of extract from the text acquisition on
IdleFrame ==
    [pc |-> "idle", file_extension |-> "", ocr_method |-> "",
     sources |-> <<>>, pages |-> 0, page |-> 0, text_content |-> <<>>,
     extracted_text |-> None, error |-> None]

\* the requests of the endpoint that are in flight together
Requests == {1, 2}

\* a request of the endpoint: where its handler is suspended, the upload,
\* whether extractor.extract was called, and the status of the response
IdleRequest ==
    [pc |-> "idle", content_type |-> None, file_extension |-> "",
     extracted |-> FALSE, status |-> None]

\* the text acquisition is at rest: no call, no file
OcrAtRest ==
    /\ paddleocr = [p \in Processors |-> PaddleOCRProcessor]
    /\ files = {}
    /\ frame = IdleFrame
    /\ inflight = [r \in Requests |-> IdleRequest]

(***************************************************************************)
(* AdvancedBLExtractor (advanced_extractor.py).                            *)
(***************************************************************************)
required_sections == <<"header_info", "parties", "ports">>

\* mutant of _is_structured_data_complete: one section group is enough
IsStructuredDataComplete_OneGroup(hint) ==
    IF ~TruthyDict(hint) THEN FALSE
    ELSE LET bl_sections ==
                 DictGet(hint[1], "bill_of_lading_sections", EmptyDict)
         IN  IF DOMAIN bl_sections = {} THEN FALSE
             ELSE LET found_sections ==
                          Cardinality(
                              {i \in 1..Len(required_sections) :
                                  TruthyList(DictGet(bl_sections,
                                                     required_sections[i],
                                                     <<>>))})
                  IN  found_sections >= 1

\* _is_structured_data_complete
IsStructuredDataComplete(hint) ==
    IF ~TruthyDict(hint) THEN FALSE
    ELSE LET bl_sections ==
                 DictGet(hint[1], "bill_of_lading_sections", EmptyDict)
         IN  IF DOMAIN bl_sections = {} THEN FALSE
             ELSE LET found_sections ==
                          Cardinality(
                              {i \in 1..Len(required_sections) :
                                  TruthyList(DictGet(bl_sections,
                                                     required_sections[i],
                                                     <<>>))})
                  IN  found_sections >= 2

PdfExtension == ".pdf"
ImageExtensions == {".jpg", ".jpeg", ".png", ".tiff", ".bmp"}
\* suffixes of the uploads of the model; ".txt" is not supported
Extensions == {PdfExtension, ".txt"} \cup ImageExtensions
OcrMethods == {"paddleocr", "tesseract"}

\* acceptance thresholds 0.8 (stage 1) and 0.5 (stage 2), in ConfScale units
Threshold1 == (8 * ConfScale) \div 10
Threshold2 == (5 * ConfScale) \div 10

\* mutant of line 56: use_docling is not consulted
Stage1Enabled_IgnoresToggle(ext, docling, available) ==
    ext = PdfExtension /\ available

\* line 56: the structured extraction is attempted
Stage1Enabled(ext, docling, available) ==
    ext = PdfExtension /\ docling /\ available

\* lines 65 and 87: "use_llm and self.llm_enhancer.is_available()";
\* is_available probes the ollama server each time it is called
LlmEnabled(llm, available) == llm /\ available

\* mutant of line 68: the stage-2 threshold is used at stage 1
AcceptStage1_LowThreshold(result) ==
    result # None /\ result[1].extraction_confidence[1] > Threshold2

\* line 68: "llm_result and llm_result.extraction_confidence > 0.8"
AcceptStage1(result) ==
    result # None /\ result[1].extraction_confidence[1] > Threshold1

\* mutant of line 89: the stage-1 threshold is used at stage 2
AcceptStage2_HighThreshold(result) ==
    result # None /\ result[1].extraction_confidence[1] > Threshold1

\* mutant of line 89: any record of the enhancer is accepted
AcceptStage2_AnyRecord(result) == result # None

\* line 89: "llm_result and llm_result.extraction_confidence > 0.5"
AcceptStage2(result) ==
    result # None /\ result[1].extraction_confidence[1] > Threshold2

\* line 69
Stage1Method == "docling_llm_gemma3"

\* mutant of line 71: the accepted stage-1 record is not returned at once,
\* and the request goes on to the text acquisition
AfterAccept1_FallsThrough == "extract_text"

\* line 71: "return llm_result" ends the request
AfterAccept1 == "done"

\* lines 90-92
Stage2Method(hint) ==
    IF TruthyDict(hint) THEN "docling_ocr_llm_gemma3" ELSE "ocr_llm_gemma3"

\* lines 101-103
RegexMethod(method, hint) ==
    IF TruthyDict(hint) THEN "docling_" \o method \o "_regex"
    ELSE method \o "_regex"

\* an assignment to extraction_method: which record, by which component
MethodWrite(rec, by, value) == [rec |-> rec, by |-> by, value |-> value]

\* the arguments of a call of enhance_extraction and the prompt it sends
EnhancerCall(stage, text, hint) ==
    [stage |-> stage, raw_text |-> text, structured_data |-> hint,
     prompt |-> CreateExtractionPrompt(text, hint)]

\* a call of llm_enhancer.is_available and its result
Probe(stage, available) == [stage |-> stage, available |-> available]

\* the write a strategy made to extraction_method of the record it hands
\* to the extractor, if it made one
StrategyWrites(rec, by, result) ==
    IF result = None \/ result[1].extraction_method = None THEN <<>>
    ELSE <<MethodWrite(rec, by, result[1].extraction_method[1])>>

\* enhance_extraction on every text and outcome of the model, computed
\* once; the hint reaches the prompt only, and the record does not depend
\* on it
EnhanceResults ==
    [text \in Texts \cup DoclingTexts, outcome \in LlmOutcomes |->
        EnhanceExtraction(text, None, outcome)]

\* TextParser.parse of a new parser on every text of the model, computed
\* once
ParseResults ==
    [text \in Documents, throws \in BOOLEAN |->
        Parse(TextParser, text, throws)]

RequestLocals ==
    <<structured_data, docling_text, extracted_text, llm_result,
      regex_result>>
RequestArgs == <<file_extension, use_llm, use_docling, ocr_method>>
ParserVars == <<parsers, input, calls>>
OcrVars == <<paddleocr, files, frame, inflight>>

\* the parser instances of the process: AdvancedBLExtractor and BLExtractor
\* create one each in __init__
ParserIds == {"advanced_extractor", "extractor"}

Init ==
    /\ docling_available \in BOOLEAN
    /\ pc = "idle"
    /\ file_extension = PdfExtension
    /\ use_llm = TRUE
    /\ use_docling = TRUE
    /\ ocr_method = "paddleocr"
    /\ tmp_file = FALSE
    /\ structured_data = None
    /\ docling_text = None
    /\ extracted_text = None
    /\ llm_result = None
    /\ regex_result = None
    /\ returned = None
    /\ raised = None
    /\ method_log = <<>>
    /\ enh_calls = <<>>
    /\ probes = <<>>
    /\ probe = None
    /\ parsers = [p \in ParserIds |-> TextParser]
    /\ input = None
    /\ calls = <<>>
    /\ OcrAtRest

\* extract, lines 44-56: a request arrives, the upload is written to a
\* temporary file, and the structured extraction is awaited or skipped
ExtractBegin ==
    /\ pc = "idle"
    /\ \E ext \in Extensions, llm \in BOOLEAN, docling \in BOOLEAN,
          method \in OcrMethods :
          /\ file_extension' = ext
          /\ use_llm' = llm
          /\ use_docling' = docling
          /\ ocr_method' = method
          /\ pc' = IF Stage1Enabled(ext, docling, docling_available)
                   THEN "structured_data" ELSE "extract_text"
    /\ tmp_file' = TRUE
    /\ UNCHANGED <<docling_available, RequestLocals, returned, raised,
                   method_log, enh_calls, probes, probe, ParserVars, OcrVars>>

\* the call is over: the caller (main.py, lines 53-65) holds the record or
\* the error, and the frame of extract with its locals is gone
ExtractEnd ==
    /\ pc \in {"done", "raised"}
    /\ pc' = "idle"
    /\ structured_data' = None
    /\ docling_text' = None
    /\ extracted_text' = None
    /\ llm_result' = None
    /\ regex_result' = None
    /\ returned' = None
    /\ raised' = None
    /\ method_log' = <<>>
    /\ enh_calls' = <<>>
    /\ probes' = <<>>
    /\ UNCHANGED <<docling_available, RequestArgs, tmp_file, probe, ParserVars, OcrVars>>

\* lines 58-62: extract_structured_data returns a hint or raises; a raise
\* is caught at line 73
DoclingStructuredData ==
    /\ pc = "structured_data"
    /\ \/ /\ pc' = "extract_text"
          /\ UNCHANGED structured_data
       \/ \E hint \in Hints :
            /\ structured_data' = Some(hint)
            /\ pc' = IF IsStructuredDataComplete(Some(hint))
                     THEN "docling_text" ELSE "extract_text"
    /\ UNCHANGED <<docling_available, RequestArgs, tmp_file, docling_text,
                   extracted_text, llm_result, regex_result, returned,
                   raised, method_log, enh_calls, probes, probe, ParserVars, OcrVars>>

\* lines 63-65: docling's extract_text returns or raises (caught at line
\* 73); then the enhancer is awaited if enabled and available
DoclingExtractText ==
    /\ pc = "docling_text"
    /\ \/ /\ pc' = "extract_text"
          /\ UNCHANGED <<docling_text, probes>>
       \/ \E text \in DoclingTexts, available \in BOOLEAN :
            /\ docling_text' = Some(text)
            /\ probes' = IF use_llm
                         THEN Append(probes, Probe(1, available))
                         ELSE probes
            /\ pc' = IF LlmEnabled(use_llm, available)
                     THEN "enhance_1" ELSE "extract_text"
    /\ UNCHANGED <<docling_available, RequestArgs, tmp_file,
                   structured_data, extracted_text, llm_result,
                   regex_result, returned, raised, method_log, enh_calls,
                   probe, ParserVars, OcrVars>>

\* lines 67-71: the enhancer runs on the docling text and the hint; an
\* exception that left it would be caught at line 73
Enhance1 ==
    /\ pc = "enhance_1"
    /\ \E outcome \in LlmOutcomesFor(structured_data) :
        LET result == EnhanceResults[docling_text[1], outcome]
            call == EnhancerCall(1, docling_text[1], structured_data)
        IN  /\ enh_calls' = Append(enh_calls, call)
            /\ IF EnhancerRaises(outcome)
               THEN /\ pc' = "extract_text"
                    /\ UNCHANGED <<llm_result, method_log, returned,
                                   tmp_file>>
               ELSE IF AcceptStage1(result)
               THEN /\ llm_result' =
                           Some([result[1] EXCEPT !.extraction_method =
                                                      Some(Stage1Method)])
                    /\ method_log' =
                           method_log
                           \o StrategyWrites("llm_1", "enhancer", result)
                           \o <<MethodWrite("llm_1", "extractor",
                                            Stage1Method)>>
                    /\ returned' = llm_result'
                    /\ tmp_file' = FALSE
                    /\ pc' = AfterAccept1
               ELSE /\ llm_result' = result
                    /\ method_log' =
                           method_log
                           \o StrategyWrites("llm_1", "enhancer", result)
                    /\ pc' = "extract_text"
                    /\ UNCHANGED <<returned, tmp_file>>
    /\ UNCHANGED <<docling_available, RequestArgs, structured_data,
                   docling_text, extracted_text, regex_result, raised,
                   probes, probe, ParserVars, OcrVars>>

\* lines 77-87: the text is acquired by the PDF or the image processor,
\* which return a text or raise; any other suffix raises ValueError; the
\* finally clause deletes the temporary file
ExtractText ==
    /\ pc = "extract_text"
    /\ \/ /\ file_extension \in {PdfExtension} \cup ImageExtensions
          /\ \E text \in Texts, available \in BOOLEAN :
                /\ extracted_text' = Some(text)
                /\ probes' = IF use_llm
                             THEN Append(probes, Probe(2, available))
                             ELSE probes
                /\ pc' = IF LlmEnabled(use_llm, available)
                         THEN "enhance_2" ELSE "parse"
          /\ UNCHANGED <<raised, tmp_file>>
       \/ /\ file_extension \in {PdfExtension} \cup ImageExtensions
          /\ raised' = Some("ocr_error")
          /\ tmp_file' = FALSE
          /\ pc' = "raised"
          /\ UNCHANGED <<extracted_text, probes>>
       \/ /\ file_extension \notin {PdfExtension} \cup ImageExtensions
          /\ raised' = Some("unsupported_type")
          /\ tmp_file' = FALSE
          /\ pc' = "raised"
          /\ UNCHANGED <<extracted_text, probes>>
    /\ UNCHANGED <<docling_available, RequestArgs, structured_data,
                   docling_text, llm_result, regex_result, returned,
                   method_log, enh_calls, probe, ParserVars, OcrVars>>

\* lines 88-95: the enhancer runs on the OCR text and the hint; no handler
\* of extract encloses this call
Enhance2 ==
    /\ pc = "enhance_2"
    /\ \E outcome \in LlmOutcomesFor(structured_data) :
        LET result == EnhanceResults[extracted_text[1], outcome]
            call == EnhancerCall(2, extracted_text[1], structured_data)
            method == Stage2Method(structured_data)
        IN  /\ enh_calls' = Append(enh_calls, call)
            /\ IF EnhancerRaises(outcome)
               THEN /\ raised' = Some("enhancer_error")
                    /\ tmp_file' = FALSE
                    /\ pc' = "raised"
                    /\ UNCHANGED <<llm_result, method_log, returned>>
               ELSE IF AcceptStage2(result)
               THEN /\ llm_result' =
                           Some([result[1] EXCEPT !.extraction_method =
                                                      Some(method)])
                    /\ method_log' =
                           method_log
                           \o StrategyWrites("llm_2", "enhancer", result)
                           \o <<MethodWrite("llm_2", "extractor", method)>>
                    /\ returned' = llm_result'
                    /\ tmp_file' = FALSE
                    /\ pc' = "done"
                    /\ UNCHANGED raised
               ELSE /\ llm_result' = result
                    /\ method_log' =
                           method_log
                           \o StrategyWrites("llm_2", "enhancer", result)
                    /\ pc' = "parse"
                    /\ UNCHANGED <<returned, tmp_file, raised>>
    /\ UNCHANGED <<docling_available, RequestArgs, structured_data,
                   docling_text, extracted_text, regex_result, probes,
                   probe, ParserVars, OcrVars>>

\* mutant of lines 101-106: extraction_method is not assigned
RegexResult_NoMethod(parsed, method, hint, text) ==
    [parsed EXCEPT !.raw_text = Some(text)]

\* mutant of lines 99-106: a document number the parser did not find is
\* taken over from the enhancer's rejected record
RegexResult_Blend(parsed, method, hint, text) ==
    [parsed EXCEPT !.extraction_method = Some(RegexMethod(method, hint)),
                   !.raw_text = Some(text),
                   !.bl_number = IF @ = None /\ llm_result # None
                                 THEN llm_result[1].bl_number ELSE @]

\* lines 99-109: what the extractor makes of the parser's record
RegexResult(parsed, method, hint, text) ==
    [parsed EXCEPT !.extraction_method = Some(RegexMethod(method, hint)),
                   !.raw_text = Some(text)]

\* lines 99-109: the pattern engine runs and its record is returned
ParseText ==
    /\ pc = "parse"
    /\ \E throws \in BOOLEAN :
        LET parsed == ParseResults[extracted_text[1], throws]
            result == RegexResult(parsed, ocr_method, structured_data,
                                  extracted_text[1])
        IN  /\ regex_result' = Some(result)
            /\ method_log' =
                   method_log
                   \o StrategyWrites("regex", "parser", Some(parsed))
                   \o (IF result.extraction_method = parsed.extraction_method
                       THEN <<>>
                       ELSE <<MethodWrite("regex", "extractor",
                                          result.extraction_method[1])>>)
    /\ returned' = regex_result'
    /\ tmp_file' = FALSE
    /\ pc' = "done"
    /\ UNCHANGED <<docling_available, RequestArgs, structured_data,
                   docling_text, extracted_text, llm_result, raised,
                   enh_calls, probes, probe, ParserVars, OcrVars>>

\* the steps of a request after its start
Step ==
    \/ DoclingStructuredData
    \/ DoclingExtractText
    \/ Enhance1
    \/ ExtractText
    \/ Enhance2
    \/ ParseText

Next == ExtractBegin \/ Step \/ ExtractEnd

Spec == Init /\ [][Next]_vars

\* every awaited collaborator call returns or raises
FairSpec == Spec /\ WF_vars(Step)

(***************************************************************************)
(* The text acquisition of extract on its own (advanced_extractor.py,      *)
(* lines 76-82): one call at a time, from the temporary copy of the upload *)
(* to the finally clause that deletes it.  Stage 1 is left out: a call     *)
(* reaches line 77 when stage 1 was skipped or did not return.             *)
(***************************************************************************)
\* os.unlink(path)
Unlink(fs, file) == fs \ {file}

\* no call of extract is running
ExtractorAtRest ==
    /\ pc = "idle"
    /\ file_extension = PdfExtension
    /\ use_llm = TRUE
    /\ use_docling = TRUE
    /\ ocr_method = "paddleocr"
    /\ tmp_file = FALSE
    /\ structured_data = None
    /\ docling_text = None
    /\ extracted_text = None
    /\ llm_result = None
    /\ regex_result = None
    /\ returned = None
    /\ raised = None
    /\ method_log = <<>>
    /\ enh_calls = <<>>
    /\ probes = <<>>
    /\ probe = None
    /\ parsers = [p \in ParserIds |-> TextParser]
    /\ input = None
    /\ calls = <<>>

\* the processors are created at import of main.py: docling and paddleocr
\* are installed or not
OcrInit ==
    /\ docling_available \in BOOLEAN
    /\ ExtractorAtRest
    /\ paddleocr \in {[p \in Processors |->
                          [PaddleOCRProcessor EXCEPT !.available = a]] :
                      a \in BOOLEAN}
    /\ files = {}
    /\ frame = IdleFrame
    /\ inflight = [r \in Requests |-> IdleRequest]

OcrUnchanged ==
    UNCHANGED <<docling_available, pc, RequestArgs, tmp_file, RequestLocals,
                returned, raised, method_log, enh_calls, probes, probe,
                ParserVars, inflight>>

\* advanced_extractor.py, lines 44-49 and 77-80: the upload is copied to a
\* temporary file and its text is asked of the PDF or the image processor
AcquireBegin ==
    /\ frame.pc = "idle"
    /\ \A p \in Processors : paddleocr[p].total_extractions < MaxExtractions
    /\ \E ext \in {PdfExtension, ".png"}, method \in AcquireMethods :
          frame' = [IdleFrame EXCEPT
                       !.pc = IF ext = PdfExtension THEN "pdf_docling"
                              ELSE "image",
                       !.file_extension = ext,
                       !.ocr_method = method]
    /\ files' = files \cup {UploadFile}
    /\ UNCHANGED paddleocr
    /\ OcrUnchanged

\* pdf_processor.py, lines 35-42: docling's text, if docling is available;
\* what it raises is caught
PdfDocling ==
    /\ frame.pc = "pdf_docling"
    /\ IF ~docling_available
       THEN frame' = [frame EXCEPT !.pc = "pdf_native"]
       ELSE \E outcome \in SourceOutcomes :
               frame' =
                   IF outcome # None /\ Sufficient(outcome[1])
                   THEN [frame EXCEPT
                            !.sources = Append(@, Source("docling", outcome)),
                            !.extracted_text = outcome,
                            !.pc = "return"]
                   ELSE [frame EXCEPT
                            !.sources = Append(@, Source("docling", outcome)),
                            !.pc = "pdf_native"]
    /\ UNCHANGED <<paddleocr, files>>
    /\ OcrUnchanged

\* lines 45-49 and 61-76: the native text; _extract_native_text returns ""
\* when pdfplumber raises
PdfNative ==
    /\ frame.pc = "pdf_native"
    /\ \E outcome \in SourceOutcomes :
          LET native_text == IF outcome = None THEN "" ELSE outcome[1]
          IN  frame' =
                  IF Sufficient(native_text)
                  THEN [frame EXCEPT
                           !.sources = Append(@, Source("native", outcome)),
                           !.extracted_text = Some(native_text),
                           !.pc = "return"]
                  ELSE [frame EXCEPT
                           !.sources = Append(@, Source("native", outcome)),
                           !.pc = "pdf_open"]
    /\ UNCHANGED <<paddleocr, files>>
    /\ OcrUnchanged

\* lines 84-86 and 127-129: fitz opens the PDF, or raises and the call
\* raises
PdfOpen ==
    /\ frame.pc = "pdf_open"
    /\ \/ frame' = [frame EXCEPT !.error = Some("ocr_error"), !.pc = "raise"]
       \/ \E n \in 1..MaxPages :
             frame' = [frame EXCEPT !.pages = n, !.page = 1,
                                    !.pc = "pdf_page"]
    /\ UNCHANGED <<paddleocr, files>>
    /\ OcrUnchanged

\* lines 111-125 and 127-129: the frame after the engine ran on a page
AfterPage(f, backend, text) ==
    IF text = None
    THEN [f EXCEPT !.sources = Append(@, Source(backend, None)),
                   !.error = Some("ocr_error"),
                   !.pc = "raise"]
    ELSE IF f.page < f.pages
    THEN [f EXCEPT !.sources = Append(@, Source(backend, text)),
                   !.text_content = IF Strip(text[1]) # ""
                                    THEN Append(@, text[1]) ELSE @,
                   !.page = @ + 1]
    ELSE [f EXCEPT !.sources = Append(@, Source(backend, text)),
                   !.text_content = IF Strip(text[1]) # ""
                                    THEN Append(@, text[1]) ELSE @,
                   !.extracted_text =
                       Some(OcrText(IF Strip(text[1]) # ""
                                    THEN Append(f.text_content, text[1])
                                    ELSE f.text_content)),
                   !.pc = "return"]

\* lines 87-117, the body of the page loop: the page is written to an
\* image file, the engine runs on it, and the finally clause deletes the
\* image file
PdfPage ==
    /\ frame.pc = "pdf_page"
    /\ LET image == TmpFile("page", frame.page)
           self == paddleocr["pdf_processor"]
       IN  IF PdfBackend(frame.ocr_method, self.available) = "paddleocr"
           THEN \E pre \in PreprocessOutcomes, engine \in EngineOutcomes :
                   LET call == PaddleExtractText(self, pre, engine)
                       left == IF call.left
                               THEN {TmpFile("preprocessed", frame.page)}
                               ELSE {}
                   IN  /\ paddleocr' =
                              [paddleocr EXCEPT !["pdf_processor"] = call.self]
                       /\ files' = Unlink(files \cup {image} \cup left, image)
                       /\ frame' = AfterPage(frame, "paddleocr", call.text)
           ELSE \E text \in TesseractTexts :
                   /\ files' = Unlink(files \cup {image}, image)
                   /\ frame' = AfterPage(frame, "tesseract", Some(text))
                   /\ UNCHANGED paddleocr
    /\ OcrUnchanged

\* image_processor.py, lines 28-53: the engine runs on the upload itself
ImageExtract ==
    /\ frame.pc = "image"
    /\ LET self == paddleocr["image_processor"]
       IN  IF ImageBackend(frame.ocr_method, self.available) = "paddleocr"
           THEN \E pre \in PreprocessOutcomes, engine \in EngineOutcomes :
                   LET call == PaddleExtractText(self, pre, engine)
                       left == IF call.left
                               THEN {TmpFile("preprocessed", 0)} ELSE {}
                   IN  /\ paddleocr' =
                              [paddleocr EXCEPT
                                  !["image_processor"] = call.self]
                       /\ files' = files \cup left
                       /\ frame' =
                              IF call.text = None
                              THEN [frame EXCEPT
                                       !.sources =
                                           Append(@, Source("paddleocr",
                                                            None)),
                                       !.error = Some("ocr_error"),
                                       !.pc = "raise"]
                              ELSE [frame EXCEPT
                                       !.sources =
                                           Append(@, Source("paddleocr",
                                                            call.text)),
                                       !.extracted_text = call.text,
                                       !.pc = "return"]
           ELSE \E text \in TesseractTexts :
                   /\ frame' = [frame EXCEPT
                                   !.sources =
                                       Append(@, Source("tesseract",
                                                        Some(text))),
                                   !.extracted_text = Some(text),
                                   !.pc = "return"]
                   /\ UNCHANGED <<paddleocr, files>>
    /\ OcrUnchanged

\* advanced_extractor.py, lines 84-114: with the text extract goes on to a
\* record, with an error it is left; either way the finally clause deletes
\* the temporary copy of the upload
AcquireEnd ==
    /\ frame.pc \in {"return", "raise"}
    /\ frame' = [frame EXCEPT
                    !.pc = IF frame.pc = "return" THEN "done" ELSE "failed"]
    /\ files' = Unlink(files, UploadFile)
    /\ UNCHANGED paddleocr
    /\ OcrUnchanged

\* the frame of the call is gone
AcquireReset ==
    /\ frame.pc \in {"done", "failed"}
    /\ frame' = IdleFrame
    /\ UNCHANGED <<paddleocr, files>>
    /\ OcrUnchanged

OcrNext ==
    \/ AcquireBegin
    \/ PdfDocling
    \/ PdfNative
    \/ PdfOpen
    \/ PdfPage
    \/ ImageExtract
    \/ AcquireEnd
    \/ AcquireReset

OcrSpec == OcrInit /\ [][OcrNext]_vars

(***************************************************************************)
(* The endpoint /extract (main.py, lines 25-65): the requests in flight    *)
(* share the one extractor of the module and its processors.  A handler    *)
(* is suspended at its two awaits: file.read() and extractor.extract().    *)
(***************************************************************************)
\* the content types of the uploads; None: the part carries none
ContentTypes ==
    {None, Some("application/pdf"), Some("image/png"), Some("text/plain")}

\* line 43: file.content_type.startswith(('image/', 'application/pdf'))
AcceptedType(content_type) ==
    \/ LitAt("image/", content_type, 1)
    \/ LitAt("application/pdf", content_type, 1)

\* lines 63-65: every exception raised in the try block, the HTTPException
\* of line 44 included, is answered with status 500
StatusOfError == 500

\* lines 41-50: the content type is tested; the handler raises or awaits
\* file.read()
Receive(r) ==
    /\ inflight[r].pc = "idle"
    /\ \A p \in Processors : paddleocr[p].total_extractions < MaxExtractions
    /\ \E content_type \in ContentTypes, ext \in {PdfExtension, ".png"} :
          inflight' =
              [inflight EXCEPT ![r] =
                  IF content_type = None
                  THEN [IdleRequest EXCEPT
                           !.pc = "responded",
                           !.content_type = content_type,
                           !.file_extension = ext,
                           !.status = Some(StatusOfError)]
                  ELSE IF ~AcceptedType(content_type[1])
                  THEN [IdleRequest EXCEPT
                           !.pc = "responded",
                           !.content_type = content_type,
                           !.file_extension = ext,
                           !.status = Some(StatusOfError)]
                  ELSE [IdleRequest EXCEPT
                           !.pc = "read",
                           !.content_type = content_type,
                           !.file_extension = ext]]
    /\ UNCHANGED <<paddleocr, files, frame>>
    /\ UNCHANGED <<docling_available, pc, RequestArgs, tmp_file,
                   RequestLocals, returned, raised, method_log, enh_calls,
                   probes, probe, ParserVars>>

\* lines 50-59: the content is read and extractor.extract is awaited
Read(r) ==
    /\ inflight[r].pc = "read"
    /\ inflight' = [inflight EXCEPT ![r].pc = "extract",
                                    ![r].extracted = TRUE]
    /\ UNCHANGED <<paddleocr, files, frame>>
    /\ UNCHANGED <<docling_available, pc, RequestArgs, tmp_file,
                   RequestLocals, returned, raised, method_log, enh_calls,
                   probes, probe, ParserVars>>

\* the processor whose engine reads an upload (advanced_extractor.py,
\* lines 77-80)
ProcessorOf(ext) ==
    IF ext = PdfExtension THEN "pdf_processor" ELSE "image_processor"

\* lines 53-65: extract returns a record or raises.  The text is read by
\* the engine of the shared processor, by Tesseract when PaddleOCR is not
\* available, or, for a PDF, taken from docling or the native text.
Extract(r) ==
    /\ inflight[r].pc = "extract"
    /\ LET p == ProcessorOf(inflight[r].file_extension)
           self == paddleocr[p]
       IN  \/ /\ self.available
              /\ \E pre \in PreprocessOutcomes, engine \in EngineOutcomes :
                    LET call == PaddleExtractText(self, pre, engine)
                    IN  /\ paddleocr' = [paddleocr EXCEPT ![p] = call.self]
                        /\ files' =
                               files \cup (IF call.left
                                           THEN {TmpFile("preprocessed", 0)}
                                           ELSE {})
                        /\ inflight' =
                               [inflight EXCEPT
                                   ![r].pc = "responded",
                                   ![r].status =
                                       IF call.text = None
                                       THEN Some(StatusOfError)
                                       ELSE Some(200)]
           \/ /\ ~self.available \/ inflight[r].file_extension = PdfExtension
              /\ inflight' = [inflight EXCEPT ![r].pc = "responded",
                                              ![r].status = Some(200)]
              /\ UNCHANGED <<paddleocr, files>>
    /\ UNCHANGED frame
    /\ UNCHANGED <<docling_available, pc, RequestArgs, tmp_file,
                   RequestLocals, returned, raised, method_log, enh_calls,
                   probes, probe, ParserVars>>

\* the response is sent and the handler is gone
Respond(r) ==
    /\ inflight[r].pc = "responded"
    /\ inflight' = [inflight EXCEPT ![r] = IdleRequest]
    /\ UNCHANGED <<paddleocr, files, frame>>
    /\ UNCHANGED <<docling_available, pc, RequestArgs, tmp_file,
                   RequestLocals, returned, raised, method_log, enh_calls,
                   probes, probe, ParserVars>>

ConcurrentNext ==
    \E r \in Requests : Receive(r) \/ Read(r) \/ Extract(r) \/ Respond(r)

ConcurrentSpec == OcrInit /\ [][ConcurrentNext]_vars

(***************************************************************************)
(* The two scorers side by side: a record with any set of its scored       *)
(* fields populated is handed to TextParser._calculate_confidence and to   *)
(* LLMEnhancer._calculate_llm_confidence.                                  *)
(***************************************************************************)
ScoredFields ==
    {"bl_number", "shipper", "consignee", "port_of_loading",
     "port_of_discharge", "booking_number", "transport_details", "cargo",
     "containers", "freight_terms"}

\* a record in which exactly the fields of populated hold a value
RecordWith(populated) ==
    LET Str(f) == IF f \in populated THEN Some(TVal) ELSE None IN
    [BillOfLadingData EXCEPT
        !.bl_number = Str("bl_number"),
        !.booking_number = Str("booking_number"),
        !.shipper = IF "shipper" \in populated
                    THEN Some(Party(Some(TVal), None)) ELSE None,
        !.consignee = IF "consignee" \in populated
                      THEN Some(Party(Some(TVal), None)) ELSE None,
        !.port_of_loading = IF "port_of_loading" \in populated
                            THEN Some(Port(Some(TVal))) ELSE None,
        !.port_of_discharge = IF "port_of_discharge" \in populated
                              THEN Some(Port(Some(TVal))) ELSE None,
        !.transport_details =
            IF "transport_details" \in populated
            THEN Some(TransportDetails(Some(TVal), None, None, None, None,
                                       None))
            ELSE None,
        !.cargo = IF "cargo" \in populated
                  THEN <<Cargo(Some(TVal), None, None, None)>> ELSE <<>>,
        !.containers = IF "containers" \in populated
                       THEN <<Container(Some(TVal))>> ELSE <<>>,
        !.freight_terms = Str("freight_terms")]

ScoreInit ==
    /\ docling_available \in BOOLEAN
    /\ pc = "idle"
    /\ file_extension = PdfExtension
    /\ use_llm = TRUE
    /\ use_docling = TRUE
    /\ ocr_method = "paddleocr"
    /\ tmp_file = FALSE
    /\ structured_data = None
    /\ docling_text = None
    /\ extracted_text = None
    /\ llm_result = None
    /\ regex_result = None
    /\ returned = None
    /\ raised = None
    /\ method_log = <<>>
    /\ enh_calls = <<>>
    /\ probes = <<>>
    /\ parsers = [p \in ParserIds |-> TextParser]
    /\ input = None
    /\ calls = <<>>
    /\ OcrAtRest
    /\ \E populated \in SUBSET ScoredFields :
          probe = Some([populated |-> populated,
                        data |-> RecordWith(populated),
                        parser |-> None, llm |-> None, before |-> None])

\* data.extraction_confidence = self._calculate_confidence(data)
ScoreWithParser ==
    /\ probe # None
    /\ probe[1].parser = None
    /\ probe' = Some([probe[1] EXCEPT
                         !.parser = Some(CalculateConfidence(probe[1].data))])
    /\ UNCHANGED <<docling_available, pc, RequestArgs, tmp_file,
                   RequestLocals, returned, raised, method_log, enh_calls,
                   probes, ParserVars, OcrVars>>

\* enhanced_data.extraction_confidence = self._calculate_llm_confidence(..)
ScoreWithEnhancer ==
    /\ probe # None
    /\ probe[1].llm = None
    /\ probe' = Some([probe[1] EXCEPT
                         !.llm = Some(CalculateLlmConfidence(probe[1].data))])
    /\ UNCHANGED <<docling_available, pc, RequestArgs, tmp_file,
                   RequestLocals, returned, raised, method_log, enh_calls,
                   probes, ParserVars, OcrVars>>

\* the fields both scorers list as critical_fields
CriticalFields ==
    {"bl_number", "shipper", "consignee", "port_of_loading",
     "port_of_discharge"}

\* an absent critical field of a scored record is assigned a value, the
\* other fields are left as they are; the scores of the record before the
\* assignment are kept for comparison
PopulateCriticalField ==
    /\ probe # None
    /\ probe[1].parser # None
    /\ probe[1].llm # None
    /\ probe[1].before = None
    /\ \E field \in CriticalFields \ probe[1].populated :
          probe' = Some([populated |-> probe[1].populated \cup {field},
                         data |-> RecordWith(probe[1].populated
                                                \cup {field}),
                         parser |-> None, llm |-> None,
                         before |-> Some([field |-> field,
                                          parser |-> probe[1].parser[1],
                                          llm |-> probe[1].llm[1]])])
    /\ UNCHANGED <<docling_available, pc, RequestArgs, tmp_file,
                   RequestLocals, returned, raised, method_log, enh_calls,
                   probes, ParserVars, OcrVars>>

ScoreNext == ScoreWithParser \/ ScoreWithEnhancer \/ PopulateCriticalField

ScoreSpec == ScoreInit /\ [][ScoreNext]_vars

(***************************************************************************)
(* The pattern engine and the enhancer's converter on their own: a text    *)
(* is drawn, and parse, _extract_field and _convert_to_bill_of_lading are  *)
(* called; every call is logged with its arguments and its result.         *)
(***************************************************************************)
\* a text parsed between two parses of the text under test
OtherText == Document(ScenarioStart, MaxLines)

\* the clean English document: the document number line, the shipper
\* line and its address line, and the two port lines
ScenarioLines == 5

ScenarioA == Document(ScenarioStart, ScenarioLines)

\* the names _extract_field is called with, and one that is no key of
\* self.patterns
FieldNames == DOMAIN patterns \cup {"port_of_delivery"}

\* a JSON object of the language model: the keys of named hold the string
\* value, the other keys null, and container_numbers the list numbers
LlmAnswer(named, value, numbers) ==
    [key \in JsonKeys |->
        IF key = "container_numbers" THEN numbers
        ELSE IF key \in named THEN value ELSE None]

\* the keys _convert_to_bill_of_lading tests before it builds a sub-record
GateKeys ==
    {"shipper_name", "consignee_name", "notify_party_name",
     "port_of_loading", "port_of_discharge", "port_of_delivery",
     "vessel_name", "voyage_number", "cargo_description"}

LlmAnswers ==
    {LlmAnswer({}, None, <<>>),
     LlmAnswer(JsonKeys, Some(""), <<"">>),
     LlmAnswer(JsonKeys, Some(LVal), <<LVal>>),
     LlmAnswer(JsonKeys \ GateKeys, Some(LVal), <<"", LVal>>),
     LlmAnswer(GateKeys, Some(LVal), <<"", "">>)}

\* mutant of parse: a run leaves the instance without its rules for the
\* document number
ParserAfterParse_ForgetsRules(self, text) ==
    [self EXCEPT !.patterns.bl_number = <<>>]

\* the attributes of the instance after parse: parse and the methods it
\* calls read self.patterns and assign no attribute of self
ParserAfterParse(self, text) == self

\* lines 201-204: the fields of TransportDetails for which
\* _extract_field finds a value in the text, for every text of the model,
\* computed once
TransportMatches ==
    [text \in Documents |->
        {field_name \in {"vessel_name", "voyage_number", "bl_number",
                         "booking_number"} :
            TruthyStr(ExtractField(TextParser, CleanText(text),
                                   field_name))}]

ParserInit ==
    /\ docling_available = TRUE
    /\ pc = "idle"
    /\ file_extension = PdfExtension
    /\ use_llm = TRUE
    /\ use_docling = TRUE
    /\ ocr_method = "paddleocr"
    /\ tmp_file = FALSE
    /\ structured_data = None
    /\ docling_text = None
    /\ extracted_text = None
    /\ llm_result = None
    /\ regex_result = None
    /\ returned = None
    /\ raised = None
    /\ method_log = <<>>
    /\ enh_calls = <<>>
    /\ probes = <<>>
    /\ probe = None
    /\ parsers = [p \in ParserIds |-> TextParser]
    /\ input \in {Some(text) : text \in Documents}
    /\ calls = <<>>
    /\ OcrAtRest

Call(op, parser, args, result) ==
    [op |-> op, parser |-> parser, args |-> args, result |-> result]

\* await text_parser.parse(text) on one of the instances
ParseCall ==
    /\ input # None
    /\ Len(calls) < MaxCalls
    /\ \E p \in ParserIds, text \in {input[1], OtherText},
          throws \in BOOLEAN :
          LET self == parsers[p]
              result == IF self = TextParser
                        THEN ParseResults[text, throws]
                        ELSE Parse(self, text, throws)
          IN  /\ calls' = Append(calls,
                                 Call("parse", p, <<text, throws>>, result))
              /\ parsers' = [parsers EXCEPT
                                ![p] = ParserAfterParse(self, text)]
    /\ UNCHANGED <<docling_available, pc, RequestArgs, tmp_file,
                   RequestLocals, returned, raised, method_log, enh_calls,
                   probes, probe, input, OcrVars>>

\* self._convert_to_bill_of_lading(llm_result); in extract the enhancer
\* runs before the pattern engine
ConvertCall ==
    /\ input # None
    /\ Len(calls) < MaxCalls
    /\ \A i \in 1..Len(calls) : calls[i].op = "convert"
    /\ \E llm_data \in LlmAnswers :
          calls' = Append(calls,
                          Call("convert", "llm_enhancer", <<llm_data>>,
                               ConvertToBillOfLading(llm_data)))
    /\ UNCHANGED <<docling_available, pc, RequestArgs, tmp_file,
                   RequestLocals, returned, raised, method_log, enh_calls,
                   probes, probe, parsers, input, OcrVars>>

ParserNext == ParseCall \/ ConvertCall

ParserSpec == ParserInit /\ [][ParserNext]_vars

FieldCall(p, self, text, field_name) ==
    Call("extract_field", p, <<text, field_name>>,
         ExtractField(self, text, field_name))

\* self._extract_field(cleaned_text, field_name), once on the text drawn
ExtractFieldCall ==
    /\ input # None
    /\ calls = <<>>
    /\ \E p \in ParserIds, field_name \in FieldNames :
          calls' = Append(calls,
                          FieldCall(p, parsers[p], CleanText(input[1]),
                                    field_name))
    /\ UNCHANGED <<docling_available, pc, RequestArgs, tmp_file,
                   RequestLocals, returned, raised, method_log, enh_calls,
                   probes, probe, parsers, input, OcrVars>>

FieldSpec == ParserInit /\ [][ExtractFieldCall]_vars

(***************************************************************************)
(* Properties.                                                             *)
(***************************************************************************)

\* C1: totality of fallback.  Once the OCR text has been acquired, extract
\* raises no error and goes on to return, and every record it returns
\* (at stage 1, at stage 2 or from the pattern engine) has an
\* extraction_method that is set and not the empty string.
C1_TotalityOfFallback ==
    /\ [](pc = "done" =>
            /\ returned # None
            /\ returned[1].extraction_method # None
            /\ returned[1].extraction_method # Some(""))
    /\ [][extracted_text # None => raised' = None]_vars
    /\ (extracted_text # None ~> pc = "done")

\* both enhancer attempts failed and the pattern engine scored 0: a record
\* is returned all the same
C1_Witness ==
    /\ pc = "done"
    /\ extracted_text # None
    /\ Len(enh_calls) = 2
    /\ llm_result = None
    /\ returned # None
    /\ returned[1].extraction_confidence = Some(0)
    /\ returned[1].extraction_method = Some("docling_tesseract_regex")

\* C2: a record with method "docling_llm_gemma3" is returned only if the
\* file is a PDF, structured hints are enabled and docling is available,
\* at least two of header_info, parties, ports are non-empty in the hint,
\* enhancement is enabled and was found available, and the enhancer's
\* record has a confidence strictly greater than 0.8.
C2_StructuredEnhancedOnlyIf ==
    (returned # None
     /\ returned[1].extraction_method = Some("docling_llm_gemma3")) =>
        /\ file_extension = ".pdf"
        /\ use_docling
        /\ docling_available
        /\ structured_data # None
        /\ LET secs == structured_data[1].bill_of_lading_sections
               Has(g) == g \in DOMAIN secs /\ secs[g] # <<>>
           IN  \/ Has("header_info") /\ Has("parties")
               \/ Has("header_info") /\ Has("ports")
               \/ Has("parties") /\ Has("ports")
        /\ use_llm
        /\ probes = <<[stage |-> 1, available |-> TRUE]>>
        /\ Len(enh_calls) = 1
        /\ enh_calls[1].stage = 1
        /\ returned = llm_result
        /\ returned[1].extraction_confidence # None
        /\ returned[1].extraction_confidence[1] * 10 > 8 * ConfScale

\* a structured+enhanced record has been returned
C2_Witness ==
    /\ pc = "done"
    /\ returned # None
    /\ returned[1].extraction_method = Some("docling_llm_gemma3")
    /\ returned[1].extraction_confidence[1] < ConfScale

\* C3: the enhancer is run at stage 2 exactly when the OCR text was
\* acquired and enhancement is enabled and found available; it is run on
\* the OCR text and the hint (None if none was obtained); its record is
\* returned iff its confidence is strictly greater than 0.5, and otherwise
\* (lower confidence, or no record) the pattern engine is next.
C3_Stage2Enhancement ==
    LET called2 == \E i \in 1..Len(enh_calls) : enh_calls[i].stage = 2
        probed2 == \E i \in 1..Len(probes) :
                      probes[i] = [stage |-> 2, available |-> TRUE]
        accepted ==
            /\ llm_result # None
            /\ llm_result[1].extraction_confidence[1] * 10 > 5 * ConfScale
    IN  /\ (pc = "enhance_2" \/ called2)
               <=> (extracted_text # None /\ use_llm /\ probed2)
        /\ called2 =>
              /\ enh_calls[Len(enh_calls)].raw_text = extracted_text[1]
              /\ enh_calls[Len(enh_calls)].structured_data = structured_data
              /\ accepted <=> (/\ pc = "done"
                               /\ returned = llm_result
                               /\ regex_result = None)
              /\ ~accepted => \/ pc = "parse"
                              \/ /\ pc = "done"
                                 /\ regex_result # None
                                 /\ returned = regex_result

\* a stage-2 record of low confidence, obtained with a hint, was rejected
C3_Witness ==
    /\ pc = "parse"
    /\ structured_data # None
    /\ Len(enh_calls) > 0
    /\ enh_calls[Len(enh_calls)].stage = 2
    /\ llm_result # None
    /\ llm_result[1].extraction_confidence[1] > 0

\* C4: whenever no enhanced record cleared its threshold, the record
\* returned is the pattern engine's record for the OCR text (with the
\* extractor's method and raw text), whatever its confidence; and the
\* pattern stage is always followed by the return of a record.
C4_PatternEngineTerminal ==
    /\ [](LET enhancedAccepted ==
                /\ llm_result # None
                /\ Len(enh_calls) > 0
                /\ llm_result[1].extraction_confidence[1] * 10 >
                       (IF enh_calls[Len(enh_calls)].stage = 1
                        THEN 8 ELSE 5) * ConfScale
          IN  (pc = "done" /\ ~enhancedAccepted) =>
                 /\ regex_result # None
                 /\ returned = regex_result
                 /\ \E throws \in BOOLEAN :
                       returned[1] =
                           [ParseResults[extracted_text[1], throws]
                            EXCEPT
                               !.extraction_method =
                                   returned[1].extraction_method,
                               !.raw_text = Some(extracted_text[1])])
    /\ [][pc = "parse" => pc' = "done" /\ returned' # None]_vars

\* the pattern engine's record of confidence 0 is returned after the
\* enhancer's record was rejected
C4_Witness ==
    /\ pc = "done"
    /\ llm_result # None
    /\ regex_result # None
    /\ returned = regex_result
    /\ returned[1].extraction_confidence = Some(0)

\* C5: the completeness gate is 2 of 3.  The hint passes the gate (docling's
\* text is requested next) iff at least two of header_info, parties, ports
\* are non-empty, whatever the other groups hold; and the stage-1 enhancer
\* call and the method "docling_llm_gemma3" occur only with such a hint.
C5_CompletenessGate ==
    /\ [](LET Has(g) ==
                  /\ g \in DOMAIN structured_data[1].bill_of_lading_sections
                  /\ structured_data[1].bill_of_lading_sections[g] # <<>>
          IN  (\/ pc \in {"docling_text", "enhance_1"}
               \/ \E i \in 1..Len(enh_calls) : enh_calls[i].stage = 1
               \/ /\ returned # None
                  /\ returned[1].extraction_method
                         = Some("docling_llm_gemma3"))
              => /\ structured_data # None
                 /\ \/ Has("header_info") /\ Has("parties")
                    \/ Has("header_info") /\ Has("ports")
                    \/ Has("parties") /\ Has("ports"))
    /\ [][LET Has(g) ==
                  /\ g \in DOMAIN structured_data'[1].bill_of_lading_sections
                  /\ structured_data'[1].bill_of_lading_sections[g] # <<>>
          IN  (pc = "structured_data" /\ structured_data' # None)
              => (pc' = "docling_text"
                  <=> \/ Has("header_info") /\ Has("parties")
                      \/ Has("header_info") /\ Has("ports")
                      \/ Has("parties") /\ Has("ports"))]_vars

\* a hint with parties only among the three groups, and all other groups
\* populated, did not pass the gate although enhancement is enabled
C5_Witness ==
    /\ pc = "extract_text"
    /\ use_llm
    /\ docling_text = None
    /\ structured_data # None
    /\ DOMAIN structured_data[1].bill_of_lading_sections # {}
    /\ structured_data[1].bill_of_lading_sections["parties"] # <<>>
    /\ structured_data[1].bill_of_lading_sections["header_info"] = <<>>
    /\ structured_data[1].bill_of_lading_sections["ports"] = <<>>
    /\ structured_data[1].bill_of_lading_sections["cargo_info"] # <<>>
    /\ structured_data[1].bill_of_lading_sections["transport_details"] # <<>>
    /\ structured_data[1].bill_of_lading_sections["footer_info"] # <<>>

\* C6: a failed strategy attempt never aborts the call.  When docling's
\* extract_structured_data or extract_text raises, or the enhancer fails at
\* stage 1 (no record), the next step is the text acquisition and no error
\* is raised; when the enhancer fails at stage 2 the next step is the
\* pattern engine, which returns a record; and an error that ends extract
\* comes from the text acquisition only, never from a strategy.
C6_FailedAttemptNeverAborts ==
    /\ [](raised # None =>
            /\ raised[1] \in {"ocr_error", "unsupported_type"}
            /\ extracted_text = None
            /\ returned = None)
    /\ [][/\ (pc = "structured_data" /\ structured_data' = None)
                => (pc' = "extract_text" /\ raised' = None)
          /\ (pc = "docling_text" /\ docling_text' = None)
                => (pc' = "extract_text" /\ raised' = None)
          /\ (pc = "enhance_1" /\ llm_result' = None)
                => (pc' = "extract_text" /\ raised' = None)
          /\ (pc = "enhance_2" /\ llm_result' = None)
                => (pc' = "parse" /\ raised' = None)
          /\ (pc = "parse" /\ llm_result = None)
                => (pc' = "done" /\ returned' # None /\ raised' = None)]_vars

\* the enhancer failed at both stages and a record with matched fields was
\* returned by the pattern engine
C6_Witness ==
    /\ pc = "done"
    /\ Len(enh_calls) = 2
    /\ llm_result = None
    /\ raised = None
    /\ returned # None
    /\ returned[1].extraction_confidence[1] > 0

\* C7: no blending across strategies.  An absent enhancer record and one of
\* low confidence lead to the same next stage; the record returned is the
\* enhancer's or the pattern engine's, never both; a returned pattern-engine
\* record holds no value captured by the enhancer, and a returned enhancer
\* record holds no value captured by the pattern engine.
C7_NoBlending ==
    /\ [](LET Party_(q) == IF q = None THEN {}
                           ELSE {q[1].name, q[1].address}
              Port_(q) == IF q = None THEN {} ELSE {q[1].name}
              Transport_(t) ==
                  IF t = None THEN {}
                  ELSE {t[1].vessel_name, t[1].voyage_number,
                        t[1].bl_number, t[1].booking_number,
                        t[1].departure_date, t[1].arrival_date}
              Cargo_(cs) ==
                  UNION {{cs[i].description, cs[i].quantity, cs[i].weight,
                          cs[i].volume} : i \in 1..Len(cs)}
              Containers_(cs) == {cs[i].number : i \in 1..Len(cs)}
              Values(r) ==
                  {r.bl_number, r.booking_number, r.freight_terms,
                   r.issue_date}
                  \cup Party_(r.shipper) \cup Party_(r.consignee)
                  \cup Party_(r.notify_party)
                  \cup Port_(r.port_of_loading)
                  \cup Port_(r.port_of_discharge)
                  \cup Port_(r.port_of_delivery)
                  \cup Transport_(r.transport_details)
                  \cup Cargo_(r.cargo) \cup Containers_(r.containers)
          IN  pc = "done" =>
                 /\ returned # None
                 /\ IF regex_result # None
                    THEN /\ returned = regex_result
                         /\ Some(LVal) \notin Values(returned[1])
                    ELSE /\ returned = llm_result
                         /\ Values(returned[1]) \subseteq
                                {None, Some(LVal)})
    /\ [][/\ (pc = "enhance_1" /\ pc' # "done") => pc' = "extract_text"
          /\ (pc = "enhance_2" /\ pc' # "done") => pc' = "parse"
          /\ pc \in {"enhance_1", "enhance_2"} =>
                UNCHANGED <<extracted_text, regex_result, structured_data>>
          /\ pc = "parse" => UNCHANGED llm_result]_vars

\* the enhancer's record with a document number was rejected, the parser
\* found no document number, and the returned record has none
C7_Witness ==
    /\ pc = "done"
    /\ llm_result # None
    /\ llm_result[1].bl_number = Some(LVal)
    /\ regex_result # None
    /\ returned = regex_result
    /\ returned[1].bl_number = None

C9_ConfidenceInUnitInterval ==
    \A r \in {llm_result, regex_result, returned} :
        r # None =>
            /\ r[1].extraction_confidence # None
            /\ r[1].extraction_confidence[1] >= 0
            /\ r[1].extraction_confidence[1] <= ConfScale

\* an enhancer record whose score with the bonus would exceed 1 is
\* returned with confidence 1
C9_Witness ==
    /\ pc = "done"
    /\ returned # None
    /\ returned = llm_result
    /\ returned[1].freight_terms # None
    /\ returned[1].extraction_confidence = Some(ConfScale)

\* C10 as claimed: for every set of populated fields the pattern engine's
\* confidence is (sum of the weights of the populated fields) / 7.2, with
\* weight 1.0 for the five critical fields, 0.5 for booking number,
\* transport details, cargo and freight terms and 0.2 for the containers,
\* and the enhancer's confidence is min(1.1 * that score, 1.0).
C10_SameScorer ==
    probe # None =>
        LET populated == probe[1].populated
            critical == {"bl_number", "shipper", "consignee",
                         "port_of_loading", "port_of_discharge"}
            important == {"booking_number", "transport_details", "cargo",
                          "freight_terms"}
            weights == 10 * Cardinality(populated \cap critical)
                       + 5 * Cardinality(populated \cap important)
                       + (IF "containers" \in populated THEN 2 ELSE 0)
            score == (weights * ConfScale) \div 72
        IN  /\ probe[1].parser # None => probe[1].parser[1] = score
            /\ probe[1].llm # None =>
                  probe[1].llm[1] =
                      (IF score * 11 > ConfScale * 10 THEN ConfScale
                       ELSE (score * 11) \div 10)

\* C11: scorer monotonicity.  When an absent critical field of a record
\* is populated and the other fields are left unchanged, neither the
\* pattern engine's score nor the enhancer's score (after the 1.1 bonus
\* and its cap) is smaller than the score of the record before.
C11_ScorerMonotonicity ==
    (probe # None /\ probe[1].before # None) =>
        /\ probe[1].parser # None =>
               probe[1].parser[1] >= probe[1].before[1].parser
        /\ probe[1].llm # None =>
               probe[1].llm[1] >= probe[1].before[1].llm

\* a critical field was populated, the pattern engine's score rose, and
\* the enhancer's score rose from below 1.0 to the cap
C11_Witness ==
    /\ probe # None
    /\ probe[1].before # None
    /\ probe[1].parser # None
    /\ probe[1].llm # None
    /\ probe[1].parser[1] > probe[1].before[1].parser
    /\ probe[1].before[1].llm < ConfScale
    /\ probe[1].llm[1] = ConfScale

\* C12: parse never raises to its caller.  Every call of parse returns a
\* record; and when a step of its try block throws, the record has
\* confidence 0.0, no extracted field, and raw_text equal to the text it
\* was called with.
C12_ParseNeverRaises ==
    \A i \in 1..Len(calls) :
        calls[i].op = "parse" =>
            /\ calls[i].result.extraction_confidence # None
            /\ calls[i].args[2] =>
                  calls[i].result =
                      [bl_number |-> None, booking_number |-> None,
                       shipper |-> None, consignee |-> None,
                       notify_party |-> None, port_of_loading |-> None,
                       port_of_discharge |-> None,
                       port_of_delivery |-> None,
                       transport_details |-> None, cargo |-> <<>>,
                       containers |-> <<>>, freight_terms |-> None,
                       issue_date |-> None,
                       extraction_confidence |-> Some(0),
                       extraction_method |-> None,
                       raw_text |-> Some(calls[i].args[1])]

\* a text in which parse finds a document number is parsed again, a step
\* throws, and the record returned has no document number, confidence 0.0
\* and the text as raw_text
C12_Witness ==
    /\ Len(calls) = 2
    /\ calls[1].op = "parse"
    /\ calls[2].op = "parse"
    /\ calls[1].args = <<input[1], FALSE>>
    /\ calls[2].args = <<input[1], TRUE>>
    /\ calls[1].result.bl_number # None
    /\ calls[1].result.extraction_confidence[1] > 0
    /\ calls[2].result.bl_number = None
    /\ calls[2].result.extraction_confidence = Some(0)
    /\ calls[2].result.raw_text = input

\* C13: determinism of the pattern engine.  Any two runs of parse on the
\* same text return records that are equal in every field, whether they
\* ran on the same instance or on different instances, and whatever was
\* parsed before or between them (runs are compared when the try block of
\* both completed, or was left by an exception in both; see C12).
C13_Determinism ==
    \A i, j \in 1..Len(calls) :
        (/\ calls[i].op = "parse"
         /\ calls[j].op = "parse"
         /\ calls[i].args = calls[j].args)
        => calls[i].result = calls[j].result

\* the text was parsed on one instance, another text was parsed on that
\* instance, then the text was parsed on the other instance: the first and
\* the last record are equal and hold a document number
C13_Witness ==
    /\ Len(calls) = 3
    /\ \A i \in 1..3 : calls[i].op = "parse" /\ ~calls[i].args[2]
    /\ input[1] # OtherText
    /\ calls[1].args[1] = input[1]
    /\ calls[2].args[1] = OtherText
    /\ calls[3].args[1] = input[1]
    /\ calls[1].parser = calls[2].parser
    /\ calls[1].parser # calls[3].parser
    /\ calls[1].result.bl_number # None
    /\ calls[1].result # calls[2].result
    /\ calls[1].result = calls[3].result

\* C14: first match wins.  For every field and every normalized text,
\* _extract_field returns the (stripped) capture of the lowest-index rule
\* of the field's list that matches somewhere in the text, and None only
\* if no rule of the list matches (or the field has no list).
C14_FirstMatchWins ==
    \A i \in 1..Len(calls) :
        calls[i].op = "extract_field" =>
            LET text == calls[i].args[1]
                field_name == calls[i].args[2]
                rules == IF field_name \in DOMAIN patterns
                         THEN patterns[field_name] ELSE <<>>
                matching == {k \in 1..Len(rules) :
                                Search(rules[k], text) # None}
            IN  IF matching = {} THEN calls[i].result = None
                ELSE \E k \in matching :
                        /\ \A m \in matching : k <= m
                        /\ calls[i].result =
                               Some(Strip(Search(rules[k], text)[1]))

\* the third rule for the document number matches earlier in the text and
\* captures another number, and the capture of the first rule is returned
C14_Witness ==
    /\ Len(calls) = 1
    /\ calls[1].op = "extract_field"
    /\ calls[1].args[2] = "bl_number"
    /\ calls[1].result = Some("ABCD1234567890")
    /\ Search(patterns.bl_number[3], calls[1].args[1])
           = Some("EFGH0987654321")

\* C15 as claimed: party assembly.  When the text has the line of the
\* shipper label with a name, followed by an address line (a line without
\* a label), parse returns a shipper whose name is the rest of the label's
\* line and whose address is the address line.
C15_PartyNameAndAddress ==
    \A i \in 1..Len(calls) :
        (calls[i].op = "parse" /\ ~calls[i].args[2]) =>
            LET lines == Split(calls[i].args[1], "\n")
                label == "SHIPPER: "
            IN  \A k \in 1..(Len(lines) - 1) :
                    (/\ Len(lines[k]) > Len(label)
                     /\ SubSeq(lines[k], 1, Len(label)) = label
                     /\ ":" \notin Chars(lines[k + 1]))
                    => calls[i].result.shipper =
                           Some(Party(Some(SubSeq(lines[k], Len(label) + 1,
                                                  Len(lines[k]))),
                                      Some(lines[k + 1])))

\* C16 as claimed: for every text the cargo list of the pattern engine has
\* at most one entry, also when both cargo rules match, and an entry
\* carries the weight and the volume that the weight and volume rules
\* match in the whole text.
C16_AtMostOneCargo ==
    \A i \in 1..Len(calls) :
        (calls[i].op = "parse" /\ ~calls[i].args[2]) =>
            LET cargo == calls[i].result.cargo
                text == CleanText(calls[i].args[1])
            IN  /\ Len(cargo) <= 1
                /\ \A c \in 1..Len(cargo) :
                      /\ cargo[c].weight
                             = ExtractField(TextParser, text, "weight")
                      /\ cargo[c].volume
                             = ExtractField(TextParser, text, "volume")

\* C17 as claimed: for every text the container list of the pattern engine
\* has one entry per match of a container-number rule, and the entries are
\* in the order in which their numbers appear in the text, also when a
\* match of the second rule comes before a match of the first.
C17_ContainersInTextOrder ==
    \A i \in 1..Len(calls) :
        (calls[i].op = "parse" /\ ~calls[i].args[2]) =>
            LET containers == calls[i].result.containers
                text == CleanText(calls[i].args[1])
                rules == patterns.container_number
                Position(number) ==
                    CHOOSE p \in 1..Len(text) :
                        /\ LitAt(number, text, p)
                        /\ \A q \in 1..(p - 1) : ~LitAt(number, text, q)
            IN  /\ Len(containers) = Len(FindAll(rules[1], text))
                                         + Len(FindAll(rules[2], text))
                /\ \A a, b \in 1..Len(containers) :
                      a < b => Position(containers[a].number[1])
                                   < Position(containers[b].number[1])

\* C18: in the pattern engine transport_details is present if and only
\* if the vessel name, the voyage number or the document number was
\* matched: a text in which only the booking number matches yields none,
\* and a text in which the document number matches yields one.
C18_TransportDetailsIff ==
    \A i \in 1..Len(calls) :
        (calls[i].op = "parse" /\ ~calls[i].args[2]) =>
            LET matched == TransportMatches[calls[i].args[1]]
                result == calls[i].result
            IN  /\ result.transport_details # None
                       <=> matched \cap {"vessel_name", "voyage_number",
                                         "bl_number"} # {}
                /\ matched = {"booking_number"} =>
                       result.transport_details = None
                /\ result.bl_number # None =>
                       result.transport_details # None

\* a text in which only the booking number matches was parsed without
\* transport_details, and a text with a document number with it
C18_Witness ==
    \E i, j \in 1..Len(calls) :
        /\ calls[i].op = "parse" /\ ~calls[i].args[2]
        /\ calls[j].op = "parse" /\ ~calls[j].args[2]
        /\ TransportMatches[calls[i].args[1]] = {"booking_number"}
        /\ calls[i].result.booking_number # None
        /\ calls[i].result.transport_details = None
        /\ calls[j].result.bl_number # None
        /\ calls[j].result.transport_details # None
        /\ calls[j].result.transport_details[1].bl_number
               = calls[j].result.bl_number

\* C19: absence collapse.  In every record the pattern engine or the
\* enhancer's conversion returns, a Party, Port, TransportDetails, Cargo
\* or Container that is present has at least one field that is not empty
\* (neither None nor ""): a sub-record with nothing in it is absent, or
\* left out of its list.
C19_AbsenceCollapse ==
    \A i \in 1..Len(calls) :
        calls[i].op \in {"parse", "convert"} =>
            LET r == calls[i].result
                Filled(v) == v # None /\ v # Some("")
                PartyOk(p) ==
                    p # None => Filled(p[1].name) \/ Filled(p[1].address)
                PortOk(p) == p # None => Filled(p[1].name)
            IN  /\ PartyOk(r.shipper)
                /\ PartyOk(r.consignee)
                /\ PartyOk(r.notify_party)
                /\ PortOk(r.port_of_loading)
                /\ PortOk(r.port_of_discharge)
                /\ PortOk(r.port_of_delivery)
                /\ r.transport_details # None =>
                      \/ Filled(r.transport_details[1].vessel_name)
                      \/ Filled(r.transport_details[1].voyage_number)
                      \/ Filled(r.transport_details[1].bl_number)
                      \/ Filled(r.transport_details[1].booking_number)
                      \/ Filled(r.transport_details[1].departure_date)
                      \/ Filled(r.transport_details[1].arrival_date)
                /\ \A c \in 1..Len(r.cargo) :
                      \/ Filled(r.cargo[c].description)
                      \/ Filled(r.cargo[c].quantity)
                      \/ Filled(r.cargo[c].weight)
                      \/ Filled(r.cargo[c].volume)
                /\ \A c \in 1..Len(r.containers) :
                      Filled(r.containers[c].number)

\* the converter was given empty strings for every key and a list of one
\* empty container number and returned no sub-record, then it was given
\* addresses, dates and quantities without names and again returned none
\* but one container; and the parser returned a record with a shipper and
\* without a consignee and cargo
C19_Witness ==
    /\ Len(calls) = 3
    /\ calls[1].op = "convert"
    /\ calls[1].args[1]["shipper_name"] = Some("")
    /\ calls[1].args[1]["container_numbers"] = <<"">>
    /\ calls[1].result.shipper = None
    /\ calls[1].result.port_of_loading = None
    /\ calls[1].result.transport_details = None
    /\ calls[1].result.cargo = <<>>
    /\ calls[1].result.containers = <<>>
    /\ calls[2].op = "convert"
    /\ calls[2].args[1]["shipper_address"] = Some(LVal)
    /\ calls[2].args[1]["departure_date"] = Some(LVal)
    /\ calls[2].args[1]["container_numbers"] = <<"", LVal>>
    /\ calls[2].result.shipper = None
    /\ calls[2].result.transport_details = None
    /\ calls[2].result.containers = <<Container(Some(LVal))>>
    /\ calls[3].op = "parse"
    /\ calls[3].result.shipper # None
    /\ calls[3].result.consignee = None
    /\ calls[3].result.cargo = <<>>

\* C20 as claimed: parse of the clean English document (document number,
\* shipper with an address line, port of loading, port of discharge)
\* returns document number "ABCD1234567890", shipper name exactly
\* "ACME SHIPPING COMPANY", a shipper address that contains
\* "HAMBURG, GERMANY", a port-of-loading name that contains "HAMBURG",
\* and a confidence above 0.3.
C20_ScenarioA ==
    \A i \in 1..Len(calls) :
        (/\ calls[i].op = "parse"
         /\ calls[i].args[1] = ScenarioA
         /\ ~calls[i].args[2]) =>
            LET r == calls[i].result
                Contains(sub, text) ==
                    \E pos \in 1..Len(text) : LitAt(sub, text, pos)
            IN  /\ r.bl_number = Some("ABCD1234567890")
                /\ r.shipper # None
                /\ r.shipper[1].name = Some("ACME SHIPPING COMPANY")
                /\ r.shipper[1].address # None
                /\ Contains("HAMBURG, GERMANY", r.shipper[1].address[1])
                /\ r.port_of_loading # None
                /\ r.port_of_loading[1].name # None
                /\ Contains("HAMBURG", r.port_of_loading[1].name[1])
                /\ r.extraction_confidence # None
                /\ 10 * r.extraction_confidence[1] > 3 * ConfScale

\* C21 as claimed: parse of the French document, whose labels are
\* "CONNAISSEMENT NO", "EXPEDITEUR" (no accent) and "PORT DE CHARGEMENT",
\* populates the fields it populates for the English document: the
\* document number, the shipper and the port of loading.
C21_ScenarioB ==
    \A i \in 1..Len(calls) :
        (/\ calls[i].op = "parse"
         /\ calls[i].args[1] = ScenarioB
         /\ ~calls[i].args[2]) =>
            /\ TruthyStr(calls[i].result.bl_number)
            /\ TruthyObj(calls[i].result.shipper)
            /\ TruthyObj(calls[i].result.port_of_loading)

\* C22: the strategy attempts of a request run one after the other and
\* each decision gates the next.  Once stage 1 has accepted, the OCR text
\* is not acquired and neither the stage-2 enhancer call (nor its
\* availability check) nor the pattern engine runs; once stage 2 has
\* accepted, the pattern engine does not run.  A request calls the
\* enhancer at most twice, first at stage 1 and then at stage 2, one call
\* per step and only while nothing was returned and the pattern engine has
\* not run; the pattern engine runs at most once, as the last step.
C22_SequentialGating ==
    /\ [](/\ Len(enh_calls) <= 2
          /\ \A i, j \in 1..Len(enh_calls) :
                i < j => enh_calls[i].stage < enh_calls[j].stage
          /\ (/\ returned # None
              /\ returned[1].extraction_method = Some(Stage1Method))
             => /\ extracted_text = None
                /\ regex_result = None
                /\ \A i \in 1..Len(enh_calls) : enh_calls[i].stage = 1
                /\ \A i \in 1..Len(probes) : probes[i].stage = 1
          /\ (/\ returned # None
              /\ returned[1].extraction_method =
                     Some(Stage2Method(structured_data)))
             => regex_result = None)
    /\ [][Len(enh_calls') > Len(enh_calls) =>
              /\ Len(enh_calls') = Len(enh_calls) + 1
              /\ pc \in {"enhance_1", "enhance_2"}
              /\ returned = None
              /\ regex_result = None]_vars
    /\ [][(extracted_text' # extracted_text /\ extracted_text' # None) =>
              (pc = "extract_text" /\ returned = None)]_vars
    /\ [][(regex_result' # regex_result /\ regex_result' # None) =>
              /\ pc = "parse"
              /\ regex_result = None
              /\ returned = None
              /\ pc' = "done"]_vars

\* stage 1 accepted and returned: one enhancer call, no OCR text, no
\* stage-2 availability check, no pattern engine
C22_Witness ==
    /\ pc = "done"
    /\ returned # None
    /\ returned[1].extraction_method = Some(Stage1Method)
    /\ Len(enh_calls) = 1
    /\ Len(probes) = 1
    /\ extracted_text = None
    /\ regex_result = None

\* C23 as claimed: the availability of the enhancer is fixed for the
\* life of the process, so all availability checks of a request, the one
\* of stage 1 and the one of stage 2 in particular, observe the same value.
C23_CapabilityFlagsFixed ==
    \A i, j \in 1..Len(probes) : probes[i].available = probes[j].available

\* C29: PDFProcessor.extract_text consults docling, the native text and
\* OCR in this order and stops at the first sufficient source.  Docling is
\* called iff it is available, and its text is returned, with no other
\* source called, iff it did not raise and its stripped text is longer
\* than 50 characters; otherwise the native text is read, and it is
\* returned, with OCR not run, iff its stripped text is longer than 50
\* characters; otherwise OCR runs and the text returned is the OCR text.
\* The call raises only out of the OCR stage, never because docling or the
\* native extraction failed.
C29_TextSourcesInOrder ==
    (/\ frame.file_extension = PdfExtension
     /\ frame.pc \in {"return", "raise", "done", "failed"}) =>
        LET src == frame.sources
            Enough(text) == text # None /\ Len(Strip(text[1])) > 50
            n == IF docling_available THEN 2 ELSE 1
            docling_ok == docling_available /\ Enough(src[1].text)
            native_ok == Enough(src[n].text)
            ocr == SubSeq(src, n + 1, Len(src))
            read == SelectSeq(ocr, LAMBDA e : e.text # None /\ e.text # Some(""))
        IN  /\ Len(src) >= 1
            /\ src[1].source = "docling" <=> docling_available
            /\ docling_ok =>
                  /\ Len(src) = 1
                  /\ frame.error = None
                  /\ frame.extracted_text = src[1].text
            /\ ~docling_ok =>
                  /\ Len(src) >= n
                  /\ src[n].source = "native"
                  /\ native_ok =>
                        /\ Len(src) = n
                        /\ frame.error = None
                        /\ frame.extracted_text = src[n].text
                  /\ ~native_ok =>
                        /\ \A i \in 1..Len(ocr) :
                              ocr[i].source \in {"paddleocr", "tesseract"}
                        /\ frame.error = None =>
                              /\ Len(ocr) >= 1
                              /\ frame.extracted_text =
                                    Some(OcrText([i \in 1..Len(read) |->
                                                     read[i].text[1]]))

\* docling returned a text of more than 50 characters that strips to 50,
\* and the native text, of 51 characters, was returned without OCR
C29_Witness ==
    /\ frame.pc = "done"
    /\ frame.sources = <<Source("docling", Some(PaddedText)),
                         Source("native", Some(LongText))>>
    /\ Len(PaddedText) > 50
    /\ frame.extracted_text = Some(LongText)

\* C30 as claimed: when extract has returned or raised, no temporary file
\* is left: not the copy of the upload, not the image of a PDF page, not a
\* preprocessed image, also when the OCR engine or the writing of the
\* preprocessed image raised.
C30_NoTemporaryFileOutlives ==
    frame.pc \in {"done", "failed"} => files = {}

\* C25 as claimed: when the OCR engine selected for a page or an image
\* raises, the text acquisition does not end with that error: another
\* engine is tried or the call goes on with the text it has.
C25_OcrErrorsRecoverable ==
    \A i \in 1..Len(frame.sources) :
        (/\ frame.sources[i].source \in {"paddleocr", "tesseract"}
         /\ frame.sources[i].text = None)
        => (frame.error = None /\ frame.pc \notin {"raise", "failed"})

\* C24 as claimed: requests in flight together are independent: while two
\* requests whose uploads go to the same processor are in flight, no step
\* writes the state of that processor (its threshold, its counters), which
\* the other request reads or writes.
C24_RequestsIndependent ==
    [][\A r1, r2 \in Requests :
          (/\ r1 # r2
           /\ inflight[r1].pc # "idle"
           /\ inflight[r2].pc # "idle"
           /\ inflight[r1].file_extension = inflight[r2].file_extension)
          => paddleocr'[ProcessorOf(inflight[r1].file_extension)] =
                 paddleocr[ProcessorOf(inflight[r1].file_extension)]]_vars

\* C28 as claimed: an upload whose content type starts with neither
\* "image/" nor "application/pdf" is answered with status 400 and the
\* extractor is not called for it; status 500 answers only requests whose
\* extraction was called and failed.
C28_RejectedUploadIs400 ==
    \A r \in Requests :
        inflight[r].pc = "responded" =>
            /\ (/\ inflight[r].content_type # None
                /\ ~AcceptedType(inflight[r].content_type[1]))
               => (inflight[r].status = Some(400) /\ ~inflight[r].extracted)
            /\ inflight[r].status = Some(500) => inflight[r].extracted

\* C26 as claimed: only input errors reach the caller.  A call on a file
\* whose suffix is not supported ends with an error and no record, and
\* neither the enhancer nor the pattern engine was called; a call on a file
\* whose suffix is supported never ends with an error.
C26_OnlyInputErrors ==
    /\ file_extension \notin {PdfExtension} \cup ImageExtensions =>
          /\ pc # "done"
          /\ returned = None
          /\ enh_calls = <<>>
          /\ regex_result = None
          /\ pc = "raised" => raised = Some("unsupported_type")
    /\ file_extension \in {PdfExtension} \cup ImageExtensions =>
          (pc # "raised" /\ raised = None)

\* C27: the toggles gate the optional strategies.  With use_llm = FALSE
\* the enhancer is neither called nor probed, and a returned record is the
\* pattern engine's, its method ending in "_regex".  With use_docling =
\* FALSE, or a file that is not a PDF, no hint is requested or held, the
\* structured path with its enhancer call is never entered, and no method
\* written or returned begins with "docling".
C27_TogglesGate ==
    /\ ~use_llm =>
          /\ enh_calls = <<>>
          /\ probes = <<>>
          /\ pc \notin {"enhance_1", "enhance_2"}
          /\ returned # None =>
                /\ returned = regex_result
                /\ LET m == returned[1].extraction_method[1]
                   IN  /\ Len(m) >= 6
                       /\ SubSeq(m, Len(m) - 5, Len(m)) = "_regex"
    /\ (~use_docling \/ file_extension # PdfExtension) =>
          /\ pc \notin {"structured_data", "docling_text", "enhance_1"}
          /\ structured_data = None
          /\ docling_text = None
          /\ \A i \in 1..Len(enh_calls) : enh_calls[i].stage # 1
          /\ \A i \in 1..Len(probes) : probes[i].stage # 1
          /\ \A i \in 1..Len(method_log) :
                ~LitAt("docling", method_log[i].value, 1)
          /\ returned # None =>
                ~LitAt("docling", returned[1].extraction_method[1], 1)

\* a PDF whose request disabled both toggles, with docling available, has
\* ended with the pattern engine's record
C27_Witness ==
    /\ pc = "done"
    /\ returned # None
    /\ ~use_llm
    /\ ~use_docling
    /\ file_extension = PdfExtension
    /\ docling_available

====
